---- MODULE Spec2Model ----
(***************************************************************************)
(* A model of the roadrunner interpreter: the tree-walking evaluator       *)
(* (src/src/evaluator.rs) over the AST of src/src/ast.rs, the objects of   *)
(* src/src/object.rs and the environment frames of src/src/environment.rs, *)
(* and the Pratt parser of src/src/parser.rs over the tokens of            *)
(* src/src/token.rs.                                                       *)
(*                                                                         *)
(* The evaluator is a recursive function with an effect on the environment *)
(* frames.  It is modelled as the machine that runs it: `stack` is the     *)
(* call stack of the functions of evaluator.rs that wait for a call of     *)
(* eval to return, one frame per waiting function with the locals it still *)
(* needs.  Every function of evaluator.rs has an action of its name (the   *)
(* function from its entry to its first call of eval, or to its return)    *)
(* and one action per place where it resumes after a call of eval.         *)
(***************************************************************************)
EXTENDS Integers, Sequences, FiniteSets, TLC

VARIABLES
    program,  \* the Node handed to Evaluator::eval by the caller
    heap,     \* the environment frames; heap[1] is the caller's Environment::new()
    stack,    \* the functions waiting for eval to return, innermost first
    pc,       \* "lex": the caller is calling next_token; "parse", "parsed": see
              \* parse_program; "eval": eval(node, env) is being entered;
              \* "return": a call of eval
              \* returned obj; "done": the caller has result; "panicked": the host aborted
    node,     \* the node argument of the call of eval being entered
    env,      \* its environment argument: the index of a frame of heap
    obj,      \* the Object the last call of eval returned
    result,   \* the Object returned to the caller of the outermost eval
    parser,   \* the Parser, None when the caller built the Node itself
    statements, \* the statements parse_program has collected
    lexer,    \* the Lexer reading the characters of a source text, None when the
              \* caller gave the tokens or the Node
    lexed     \* the tokens its next_token has returned so far

vars ==
    <<program, heap, stack, pc, node, env, obj, result, parser, statements, lexer, lexed>>

(***************************************************************************)
(* ast.rs: Node.  An Option<Box<Node>> that is absent is None.             *)
(***************************************************************************)
None == [kind |-> "None"]

IsNone(x) == "kind" \in DOMAIN x /\ x.kind = "None"

IsSome(x) == ~IsNone(x)

IntegerLiteral(value) == [kind |-> "IntegerLiteral", value |-> value]

BooleanLiteral(value) == [kind |-> "BooleanLiteral", value |-> value]

Identifier(name) == [kind |-> "Identifier", name |-> name]

Prefix(operator, right) == [kind |-> "Prefix", operator |-> operator, right |-> right]

Infix(left, operator, right) ==
    [kind |-> "Infix", left |-> left, operator |-> operator, right |-> right]

If(condition, consequence, alternative) ==
    [kind |-> "If", condition |-> condition, consequence |-> consequence,
     alternative |-> alternative]

Function(parameters, body) == [kind |-> "Function", parameters |-> parameters, body |-> body]

Call(function, arguments) == [kind |-> "Call", function |-> function, arguments |-> arguments]

Let(name, value) == [kind |-> "Let", name |-> name, value |-> value]

Return(return_value) == [kind |-> "Return", return_value |-> return_value]

ExprStmt(expression) == [kind |-> "ExprStmt", expression |-> expression]

Block(stmts) == [kind |-> "Block", statements |-> stmts]

Program(stmts) == [kind |-> "Program", statements |-> stmts]

(***************************************************************************)
(* object.rs: Object.  A Function object holds a reference to a frame: the *)
(* index of the frame in the heap.                                         *)
(***************************************************************************)
Integer(value) == [type |-> "INTEGER", value |-> value]

Boolean(value) == [type |-> "BOOLEAN", value |-> value]

Null == [type |-> "NULL"]

ReturnValue(value) == [type |-> "RETURN_VALUE", value |-> value]

Error(message) == [type |-> "ERROR", message |-> message]

FunctionObj(parameters, body, e) ==
    [type |-> "FUNCTION_OBJ", parameters |-> parameters, body |-> body, env |-> e]

type_name(o) == o.type

is_error(o) == o.type = "ERROR"

NULL == Null

(***************************************************************************)
(* environment.rs: Environment.  A frame is a store and the index of its   *)
(* outer frame, 0 for none.  An Env is a shared reference to a frame, so a *)
(* frame is named by its index in the heap and a write to it is seen by    *)
(* every holder of that index.                                             *)
(***************************************************************************)
NewEnvironment == [store |-> <<>>, outer |-> 0]

\* Environment::new_enclosed(outer): the heap h with a fresh frame, and its index.
new_enclosed(outer, h) ==
    [env |-> Len(h) + 1, heap |-> Append(h, [store |-> <<>>, outer |-> outer])]

\* Environment::get: the innermost binding of name along the chain from e, or None.
RECURSIVE get(_, _, _)
get(h, e, name) ==
    IF name \in DOMAIN h[e].store THEN h[e].store[name]
    ELSE IF h[e].outer # 0 THEN get(h, h[e].outer, name)
    ELSE None

\* The innermost frame along the chain from e that binds name, e when none does.
RECURSIVE FrameOf(_, _, _)
FrameOf(h, e, name) ==
    IF name \in DOMAIN h[e].store THEN e
    ELSE IF h[e].outer # 0 THEN
         (IF get(h, h[e].outer, name) = None THEN e ELSE FrameOf(h, h[e].outer, name))
    ELSE e

\* Environment::set as it would be if it assigned to the binding the chain
\* already has: BindingWritesCurrentFrame tells the two apart.
set_assigning(h, e, name, val) ==
    [h EXCEPT ![FrameOf(h, e, name)].store = (name :> val) @@ @]

\* Environment::set: writes the store of frame e itself.
set(h, e, name, val) == [h EXCEPT ![e].store = (name :> val) @@ @]

(***************************************************************************)
(* evaluator.rs: the operators on objects.                                 *)
(***************************************************************************)
native_bool_to_boolean_object(input) == IF input THEN Boolean(TRUE) ELSE Boolean(FALSE)

\* The object o is the Boolean b.
IsBoolean(o, b) == o.type = "BOOLEAN" /\ o.value = b

IsNull(o) == o.type = "NULL"

\* is_truthy as it would be if the integer 0 were not truthy:
\* IfChoosesBranchByTruthiness tells the two apart.
is_truthy_zero_falsy(o) ==
    IF IsBoolean(o, TRUE) THEN TRUE
    ELSE IF IsBoolean(o, FALSE) THEN FALSE
    ELSE IF IsNull(o) THEN FALSE
    ELSE IF o.type = "INTEGER" THEN o.value # 0
    ELSE TRUE

is_truthy(o) ==
    IF IsBoolean(o, TRUE) THEN TRUE
    ELSE IF IsBoolean(o, FALSE) THEN FALSE
    ELSE IF IsNull(o) THEN FALSE
    ELSE TRUE

\* Rust's integer division truncates toward zero.
TruncDiv(left, right) ==
    LET q == (IF left < 0 THEN -left ELSE left) \div (IF right < 0 THEN -right ELSE right)
    IN IF (left < 0) = (right < 0) THEN q ELSE -q

\* `left / right` with right = 0 panics: the host aborts and no object is returned.
PANIC == [type |-> "PANIC"]

\* The integers of the programs here are far from the ends of i64, where `+`,
\* `-` and `*` overflow.
eval_integer_infix_expression(operator, left, right) ==
    CASE operator = "+" -> Integer(left + right)
      [] operator = "-" -> Integer(left - right)
      [] operator = "*" -> Integer(left * right)
      [] operator = "/" -> IF right = 0 THEN PANIC ELSE Integer(TruncDiv(left, right))
      [] operator = "<" -> native_bool_to_boolean_object(left < right)
      [] operator = ">" -> native_bool_to_boolean_object(left > right)
      [] operator = "==" -> native_bool_to_boolean_object(left = right)
      [] operator = "!=" -> native_bool_to_boolean_object(left # right)
      [] OTHER -> Error("unknown operator: " \o ToString(left) \o " " \o operator
                        \o " " \o ToString(right))

eval_boolean_infix_expression(operator, left, right) ==
    CASE operator = "==" -> native_bool_to_boolean_object(left = right)
      [] operator = "!=" -> native_bool_to_boolean_object(left # right)
      [] OTHER -> Error("unknown operator: BOOLEAN " \o operator \o " BOOLEAN")

eval_infix_expression(operator, left, right) ==
    IF left.type = "INTEGER" /\ right.type = "INTEGER"
    THEN eval_integer_infix_expression(operator, left.value, right.value)
    ELSE IF left.type = "BOOLEAN" /\ right.type = "BOOLEAN"
    THEN eval_boolean_infix_expression(operator, left.value, right.value)
    ELSE IF type_name(left) # type_name(right)
    THEN Error("type mismatch: " \o type_name(left) \o " " \o operator \o " "
               \o type_name(right))
    ELSE Error("unknown operator: " \o type_name(left) \o " " \o operator \o " "
               \o type_name(right))

eval_bang_operator_expression(right) ==
    IF IsBoolean(right, TRUE) THEN Boolean(FALSE)
    ELSE IF IsBoolean(right, FALSE) THEN Boolean(TRUE)
    ELSE IF right.type = "INTEGER" THEN Boolean(FALSE)
    ELSE IF IsNull(right) THEN Boolean(TRUE)
    ELSE Boolean(FALSE)

eval_minus_prefix_operator_expression(right) ==
    IF right.type = "INTEGER" THEN Integer(-right.value)
    ELSE Error("unknown operator: -" \o type_name(right))

eval_prefix_expression(operator, right) ==
    CASE operator = "!" -> eval_bang_operator_expression(right)
      [] operator = "-" -> eval_minus_prefix_operator_expression(right)
      [] OTHER -> Error("unknown operator: " \o operator \o type_name(right))

unwrap_return_value(o) == IF o.type = "RETURN_VALUE" THEN o.value ELSE o

(***************************************************************************)
(* The machine: entering a call of eval, returning from one, aborting.     *)
(***************************************************************************)
Push(f, stk) == <<f>> \o stk

\* eval(n, e) is called with the functions of stk waiting.
Enter(n, e, stk) ==
    /\ pc' = "eval" /\ node' = n /\ env' = e /\ stack' = stk /\ obj' = None

\* o is returned to the innermost function of stk.
Yield(o, stk) ==
    /\ pc' = "return" /\ obj' = o /\ stack' = stk /\ node' = None /\ env' = 0

\* The host panics: no function of the stack resumes.
Abort ==
    /\ pc' = "panicked" /\ obj' = None /\ stack' = stack /\ node' = None /\ env' = 0

Evaluating(kind) == pc = "eval" /\ node.kind = kind

Resuming(fn, at) ==
    pc = "return" /\ stack # <<>> /\ Head(stack).fn = fn /\ Head(stack).at = at

(***************************************************************************)
(* evaluator.rs: eval's match arms without a function of their own.        *)
(***************************************************************************)
eval_ExprStmt ==
    /\ Evaluating("ExprStmt")
    /\ IF IsNone(node.expression) THEN Yield(NULL, stack)
       ELSE Enter(node.expression, env, stack)
    /\ UNCHANGED <<program, heap, result, parser, statements, lexer, lexed>>

eval_IntegerLiteral ==
    /\ Evaluating("IntegerLiteral")
    /\ Yield(Integer(node.value), stack)
    /\ UNCHANGED <<program, heap, result, parser, statements, lexer, lexed>>

eval_BooleanLiteral ==
    /\ Evaluating("BooleanLiteral")
    /\ Yield(native_bool_to_boolean_object(node.value), stack)
    /\ UNCHANGED <<program, heap, result, parser, statements, lexer, lexed>>

(***************************************************************************)
(* eval_program: the loop over the statements of the Program.              *)
(***************************************************************************)
eval_program ==
    /\ Evaluating("Program")
    /\ IF node.statements = <<>> THEN Yield(NULL, stack)
       ELSE Enter(node.statements[1], env,
                  Push([fn |-> "eval_program", at |-> "statement",
                        statements |-> node.statements, i |-> 1, environment |-> env],
                       stack))
    /\ UNCHANGED <<program, heap, result, parser, statements, lexer, lexed>>

\* After statement i returned obj: the match on result, and the next iteration.
eval_program_statement ==
    /\ Resuming("eval_program", "statement")
    /\ LET f == Head(stack) IN
       IF obj.type = "RETURN_VALUE" THEN Yield(obj.value, Tail(stack))
       ELSE IF obj.type = "ERROR" THEN Yield(obj, Tail(stack))
       ELSE IF f.i = Len(f.statements) THEN Yield(obj, Tail(stack))
       ELSE Enter(f.statements[f.i + 1], f.environment,
                  Push([f EXCEPT !.i = @ + 1], Tail(stack)))
    /\ UNCHANGED <<program, heap, result, parser, statements, lexer, lexed>>

(***************************************************************************)
(* pre_eval_prefix_expression                                              *)
(***************************************************************************)
\* With the operand's object right: the error check and the operator.
prefix_with_right(operator, right, stk) ==
    IF is_error(right) THEN Yield(right, stk)
    ELSE Yield(eval_prefix_expression(operator, right), stk)

pre_eval_prefix_expression ==
    /\ Evaluating("Prefix")
    /\ IF IsSome(node.right)
       THEN Enter(node.right, env,
                  Push([fn |-> "pre_eval_prefix_expression", at |-> "right",
                        operator |-> node.operator], stack))
       ELSE prefix_with_right(node.operator, NULL, stack)
    /\ UNCHANGED <<program, heap, result, parser, statements, lexer, lexed>>

pre_eval_prefix_expression_right ==
    /\ Resuming("pre_eval_prefix_expression", "right")
    /\ prefix_with_right(Head(stack).operator, obj, Tail(stack))
    /\ UNCHANGED <<program, heap, result, parser, statements, lexer, lexed>>

(***************************************************************************)
(* pre_eval_infix_expression                                               *)
(***************************************************************************)
\* With both operands: the error check of right and the operator.
infix_with_right(operator, left, right, stk) ==
    IF is_error(right) THEN Yield(right, stk)
    ELSE LET o == eval_infix_expression(operator, left, right) IN
         IF o.type = "PANIC" THEN Abort ELSE Yield(o, stk)

\* With the left operand: its error check, then the right operand.
infix_with_left(operator, left, right, e, stk) ==
    IF is_error(left) THEN Yield(left, stk)
    ELSE IF IsSome(right)
    THEN Enter(right, e, Push([fn |-> "pre_eval_infix_expression", at |-> "right",
                               operator |-> operator, left |-> left], stk))
    ELSE infix_with_right(operator, left, NULL, stk)

pre_eval_infix_expression ==
    /\ Evaluating("Infix")
    /\ IF IsSome(node.left)
       THEN Enter(node.left, env,
                  Push([fn |-> "pre_eval_infix_expression", at |-> "left",
                        operator |-> node.operator, right |-> node.right, env |-> env],
                       stack))
       ELSE infix_with_left(node.operator, NULL, node.right, env, stack)
    /\ UNCHANGED <<program, heap, result, parser, statements, lexer, lexed>>

pre_eval_infix_expression_left ==
    /\ Resuming("pre_eval_infix_expression", "left")
    /\ LET f == Head(stack) IN infix_with_left(f.operator, obj, f.right, f.env, Tail(stack))
    /\ UNCHANGED <<program, heap, result, parser, statements, lexer, lexed>>

pre_eval_infix_expression_right ==
    /\ Resuming("pre_eval_infix_expression", "right")
    /\ LET f == Head(stack) IN infix_with_right(f.operator, f.left, obj, Tail(stack))
    /\ UNCHANGED <<program, heap, result, parser, statements, lexer, lexed>>

(***************************************************************************)
(* eval_if_statement                                                       *)
(***************************************************************************)
\* With the condition's object: the error check and the choice of the branch,
\* whose value is the value of the If.
if_with_condition(condition, consequence, alternative, e, stk) ==
    IF is_error(condition) THEN Yield(condition, stk)
    ELSE IF is_truthy(condition)
    THEN (IF IsSome(consequence) THEN Enter(consequence, e, stk) ELSE Yield(NULL, stk))
    ELSE IF IsSome(alternative) THEN Enter(alternative, e, stk)
    ELSE Yield(NULL, stk)

eval_if_statement ==
    /\ Evaluating("If")
    /\ IF IsSome(node.condition)
       THEN Enter(node.condition, env,
                  Push([fn |-> "eval_if_statement", at |-> "condition",
                        consequence |-> node.consequence,
                        alternative |-> node.alternative, env |-> env], stack))
       ELSE if_with_condition(NULL, node.consequence, node.alternative, env, stack)
    /\ UNCHANGED <<program, heap, result, parser, statements, lexer, lexed>>

eval_if_statement_condition ==
    /\ Resuming("eval_if_statement", "condition")
    /\ LET f == Head(stack) IN
       if_with_condition(obj, f.consequence, f.alternative, f.env, Tail(stack))
    /\ UNCHANGED <<program, heap, result, parser, statements, lexer, lexed>>

(***************************************************************************)
(* eval_return_statement                                                   *)
(***************************************************************************)
eval_return_statement ==
    /\ Evaluating("Return")
    /\ IF IsSome(node.return_value)
       THEN Enter(node.return_value, env,
                  Push([fn |-> "eval_return_statement", at |-> "value"], stack))
       ELSE Yield(NULL, stack)
    /\ UNCHANGED <<program, heap, result, parser, statements, lexer, lexed>>

eval_return_statement_value ==
    /\ Resuming("eval_return_statement", "value")
    /\ IF is_error(obj) THEN Yield(obj, Tail(stack))
       ELSE Yield(ReturnValue(obj), Tail(stack))
    /\ UNCHANGED <<program, heap, result, parser, statements, lexer, lexed>>

(***************************************************************************)
(* eval_identifier                                                         *)
(***************************************************************************)
eval_identifier ==
    /\ Evaluating("Identifier")
    /\ LET val == get(heap, env, node.name) IN
       IF IsSome(val) THEN Yield(val, stack)
       ELSE Yield(Error("identifier not found: " \o node.name), stack)
    /\ UNCHANGED <<program, heap, result, parser, statements, lexer, lexed>>

(***************************************************************************)
(* eval_let_statement                                                      *)
(***************************************************************************)
eval_let_statement ==
    /\ Evaluating("Let")
    /\ IF IsNone(node.name) THEN Yield(Null, stack) /\ heap' = heap
       ELSE IF node.name.kind # "Identifier"
       THEN Yield(Error("let statement name must be an identifier"), stack) /\ heap' = heap
       ELSE IF IsSome(node.value)
       THEN /\ Enter(node.value, env,
                     Push([fn |-> "eval_let_statement", at |-> "value",
                           name_str |-> node.name.name, env |-> env], stack))
            /\ heap' = heap
       ELSE /\ heap' = set(heap, env, node.name.name, Null)
            /\ Yield(Null, stack)
    /\ UNCHANGED <<program, result, parser, statements, lexer, lexed>>

\* eval_let_statement as it would be without the is_error check of the value:
\* ErrorShortCircuits tells the two apart.
eval_let_statement_value_unchecked ==
    /\ Resuming("eval_let_statement", "value")
    /\ LET f == Head(stack) IN
       /\ heap' = set(heap, f.env, f.name_str, obj)
       /\ Yield(obj, Tail(stack))
    /\ UNCHANGED <<program, result, parser, statements, lexer, lexed>>

\* eval_let_statement as it would be if a value that is an Error bound the name
\* to Null: LetBindsOnlyOnSuccess tells the two apart.
eval_let_statement_value_nulling ==
    /\ Resuming("eval_let_statement", "value")
    /\ LET f == Head(stack) IN
       /\ heap' = set(heap, f.env, f.name_str, IF is_error(obj) THEN Null ELSE obj)
       /\ Yield(obj, Tail(stack))
    /\ UNCHANGED <<program, result, parser, statements, lexer, lexed>>

eval_let_statement_value ==
    /\ Resuming("eval_let_statement", "value")
    /\ LET f == Head(stack) IN
       IF is_error(obj) THEN Yield(obj, Tail(stack)) /\ heap' = heap
       ELSE /\ heap' = set(heap, f.env, f.name_str, obj)
            /\ Yield(obj, Tail(stack))
    /\ UNCHANGED <<program, result, parser, statements, lexer, lexed>>

(***************************************************************************)
(* eval_function_literal                                                   *)
(***************************************************************************)
\* eval_function_literal as it would be if a function captured the global
\* environment instead of the one it is evaluated in: ClosuresKeepTheirFrame
\* tells the two apart.
eval_function_literal_global ==
    /\ Evaluating("Function")
    /\ Yield(FunctionObj(node.parameters, node.body, 1), stack)
    /\ UNCHANGED <<program, heap, result, parser, statements, lexer, lexed>>

eval_function_literal ==
    /\ Evaluating("Function")
    /\ Yield(FunctionObj(node.parameters, node.body, env), stack)
    /\ UNCHANGED <<program, heap, result, parser, statements, lexer, lexed>>

(***************************************************************************)
(* eval_call_expression, eval_expressions, apply_function,                 *)
(* extend_function_env                                                     *)
(***************************************************************************)
\* The zip loop of extend_function_env from pair i on, binding in frame e of h.
RECURSIVE extend_function_env_loop(_, _, _, _, _)
extend_function_env_loop(parameters, args, i, e, h) ==
    IF i > Len(parameters) \/ i > Len(args)
    THEN [ok |-> TRUE, env |-> e, err |-> None, heap |-> h]
    ELSE IF parameters[i].kind # "Identifier"
    THEN [ok |-> FALSE, env |-> e,
          err |-> Error("function parameter must be an identifier"), heap |-> h]
    ELSE extend_function_env_loop(parameters, args, i + 1, e,
                                  set(h, e, parameters[i].name, args[i]))

\* extend_function_env as it would be with dynamic scope, the new frame enclosed
\* in the frame created last: FrameOuterIsCapturedEnv tells the two apart.
extend_function_env_dynamic(function, args, h) ==
    IF function.type = "FUNCTION_OBJ"
    THEN LET x == new_enclosed(Len(h), h) IN
         extend_function_env_loop(function.parameters, args, 1, x.env, x.heap)
    ELSE [ok |-> FALSE, env |-> 0,
          err |-> Error("not a function: " \o type_name(function)), heap |-> h]

\* extend_function_env as it would be if it refused a call whose arguments are
\* not as many as the parameters: ParametersPairByPosition tells the two apart.
extend_function_env_strict(function, args, h) ==
    IF function.type = "FUNCTION_OBJ" /\ Len(function.parameters) # Len(args)
    THEN [ok |-> FALSE, env |-> 0,
          err |-> Error("wrong number of arguments"), heap |-> h]
    ELSE IF function.type = "FUNCTION_OBJ"
    THEN LET x == new_enclosed(function.env, h) IN
         extend_function_env_loop(function.parameters, args, 1, x.env, x.heap)
    ELSE [ok |-> FALSE, env |-> 0,
          err |-> Error("not a function: " \o type_name(function)), heap |-> h]

\* Ok(extended_env) or Err(object), with the heap it leaves.
extend_function_env(function, args, h) ==
    IF function.type = "FUNCTION_OBJ"
    THEN LET x == new_enclosed(function.env, h) IN
         extend_function_env_loop(function.parameters, args, 1, x.env, x.heap)
    ELSE [ok |-> FALSE, env |-> 0,
          err |-> Error("not a function: " \o type_name(function)), heap |-> h]

\* apply_function up to the evaluation of the body.
apply_function(function, args, stk) ==
    IF function.type = "FUNCTION_OBJ"
    THEN LET x == extend_function_env(function, args, heap) IN
         /\ heap' = x.heap
         /\ IF ~x.ok THEN Yield(x.err, stk)
            ELSE IF IsSome(function.body)
            THEN Enter(function.body, x.env,
                       Push([fn |-> "apply_function", at |-> "body"], stk))
            ELSE Yield(unwrap_return_value(NULL), stk)
    ELSE /\ heap' = heap
         /\ Yield(Error("not a function: " \o type_name(function)), stk)

\* eval_call_expression as it would be without the test of the vector for an
\* Error: CallEvaluatesCalleeThenArguments tells the two apart.
call_with_args_unchecked(function, args, stk) == apply_function(function, args, stk)

\* eval_call_expression with the vector eval_expressions returned.
call_with_args(function, args, stk) ==
    IF Len(args) = 1 /\ is_error(args[1]) THEN Yield(args[1], stk) /\ heap' = heap
    ELSE apply_function(function, args, stk)

eval_call_expression ==
    /\ Evaluating("Call")
    /\ IF IsSome(node.function)
       THEN Enter(node.function, env,
                  Push([fn |-> "eval_call_expression", at |-> "function",
                        arguments |-> node.arguments, env |-> env], stack))
       ELSE Yield(NULL, stack)
    /\ UNCHANGED <<program, heap, result, parser, statements, lexer, lexed>>

\* After the callee returned obj: its error check, then eval_expressions, which
\* returns at once when there is no argument.
eval_call_expression_function ==
    /\ Resuming("eval_call_expression", "function")
    /\ LET f == Head(stack) IN
       IF is_error(obj) THEN Yield(obj, Tail(stack)) /\ heap' = heap
       ELSE IF f.arguments = <<>> THEN call_with_args(obj, <<>>, Tail(stack))
       ELSE /\ Enter(f.arguments[1], f.env,
                     Push([fn |-> "eval_expressions", at |-> "expression",
                           expressions |-> f.arguments, i |-> 1, result |-> <<>>,
                           environment |-> f.env],
                          Push([fn |-> "eval_call_expression", at |-> "arguments",
                                function |-> obj], Tail(stack))))
            /\ heap' = heap
    /\ UNCHANGED <<program, result, parser, statements, lexer, lexed>>

\* After expression i returned obj: eval_expressions' error check and push, and,
\* when it returns its vector, the rest of eval_call_expression beneath it.
eval_expressions_expression ==
    /\ Resuming("eval_expressions", "expression")
    /\ LET f == Head(stack)
           c == stack[2]
           rest == Tail(Tail(stack))
       IN IF is_error(obj) THEN call_with_args(c.function, <<obj>>, rest)
          ELSE IF f.i = Len(f.expressions)
          THEN call_with_args(c.function, Append(f.result, obj), rest)
          ELSE /\ Enter(f.expressions[f.i + 1], f.environment,
                        Push([f EXCEPT !.i = @ + 1, !.result = Append(@, obj)],
                             Tail(stack)))
               /\ heap' = heap
    /\ UNCHANGED <<program, result, parser, statements, lexer, lexed>>

\* After the body returned obj.
apply_function_body ==
    /\ Resuming("apply_function", "body")
    /\ Yield(unwrap_return_value(obj), Tail(stack))
    /\ UNCHANGED <<program, heap, result, parser, statements, lexer, lexed>>

(***************************************************************************)
(* eval_block_statement: the loop over the statements of the Block.        *)
(***************************************************************************)
\* eval_block_statement as it would be if a block had a scope of its own, a new
\* frame enclosed in the current one: BlocksShareTheFrame tells the two apart.
eval_block_statement_scoped ==
    /\ Evaluating("Block")
    /\ IF node.statements = <<>> THEN Yield(NULL, stack) /\ heap' = heap
       ELSE /\ heap' = new_enclosed(env, heap).heap
            /\ Enter(node.statements[1], new_enclosed(env, heap).env,
                     Push([fn |-> "eval_block_statement", at |-> "statement",
                           statements |-> node.statements, i |-> 1,
                           environment |-> new_enclosed(env, heap).env],
                          stack))
    /\ UNCHANGED <<program, result, parser, statements, lexer, lexed>>

eval_block_statement ==
    /\ Evaluating("Block")
    /\ IF node.statements = <<>> THEN Yield(NULL, stack)
       ELSE Enter(node.statements[1], env,
                  Push([fn |-> "eval_block_statement", at |-> "statement",
                        statements |-> node.statements, i |-> 1, environment |-> env],
                       stack))
    /\ UNCHANGED <<program, heap, result, parser, statements, lexer, lexed>>

\* eval_block_statement as it would be with the match of eval_program, which
\* unwraps the ReturnValue: BlockForwardsReturnValue tells the two apart.
eval_block_statement_statement_unwrapping ==
    /\ Resuming("eval_block_statement", "statement")
    /\ LET f == Head(stack) IN
       IF obj.type = "RETURN_VALUE" THEN Yield(obj.value, Tail(stack))
       ELSE IF obj.type = "ERROR" THEN Yield(obj, Tail(stack))
       ELSE IF f.i = Len(f.statements) THEN Yield(obj, Tail(stack))
       ELSE Enter(f.statements[f.i + 1], f.environment,
                  Push([f EXCEPT !.i = @ + 1], Tail(stack)))
    /\ UNCHANGED <<program, heap, result, parser, statements, lexer, lexed>>

\* After statement i returned obj: the match on result, and the next iteration.
eval_block_statement_statement ==
    /\ Resuming("eval_block_statement", "statement")
    /\ LET f == Head(stack) IN
       IF obj.type = "RETURN_VALUE" /\ ~IsNull(obj.value) THEN Yield(obj, Tail(stack))
       ELSE IF obj.type = "ERROR" THEN Yield(obj, Tail(stack))
       ELSE IF f.i = Len(f.statements) THEN Yield(obj, Tail(stack))
       ELSE Enter(f.statements[f.i + 1], f.environment,
                  Push([f EXCEPT !.i = @ + 1], Tail(stack)))
    /\ UNCHANGED <<program, heap, result, parser, statements, lexer, lexed>>

(***************************************************************************)
(* The caller of the outermost eval gets its object.                       *)
(***************************************************************************)
evaluated ==
    /\ pc = "return" /\ stack = <<>>
    /\ pc' = "done" /\ result' = obj
    /\ UNCHANGED <<program, heap, stack, node, env, obj, parser, statements, lexer, lexed>>

(***************************************************************************)
(* token.rs: Token.                                                        *)
(***************************************************************************)
Token(type) == [type |-> type]

TokenIdent(id) == [type |-> "Ident", id |-> id]

TokenInt(int) == [type |-> "Int", int |-> int]

Eof == Token("Eof")

Illegal == Token("Illegal")

to_literal(token) ==
    CASE token.type = "Illegal" -> "ILLEGAL"
      [] token.type = "Eof" -> "EOF"
      [] token.type = "Ident" -> token.id
      [] token.type = "Int" -> ToString(token.int)
      [] token.type = "Assign" -> "="
      [] token.type = "Plus" -> "+"
      [] token.type = "Minus" -> "-"
      [] token.type = "Bang" -> "!"
      [] token.type = "Asterisk" -> "*"
      [] token.type = "Slash" -> "/"
      [] token.type = "LessThan" -> "<"
      [] token.type = "GreaterThan" -> ">"
      [] token.type = "Eq" -> "=="
      [] token.type = "NotEq" -> "!="
      [] token.type = "Comma" -> ","
      [] token.type = "Semicolon" -> ";"
      [] token.type = "Lparen" -> "("
      [] token.type = "Rparen" -> ")"
      [] token.type = "Lbrace" -> "{"
      [] token.type = "Rbrace" -> "}"
      [] token.type = "Function" -> "fn"
      [] token.type = "Let" -> "let"
      [] token.type = "True" -> "true"
      [] token.type = "False" -> "false"
      [] token.type = "If" -> "if"
      [] token.type = "Else" -> "else"
      [] token.type = "Return" -> "return"

\* token.rs: KEYWORDS and lookup_ident.
lookup_ident(ident) ==
    CASE ident = "fn" -> Token("Function")
      [] ident = "let" -> Token("Let")
      [] ident = "true" -> Token("True")
      [] ident = "false" -> Token("False")
      [] ident = "if" -> Token("If")
      [] ident = "else" -> Token("Else")
      [] ident = "return" -> Token("Return")
      [] OTHER -> TokenIdent(ident)

\* lexer.rs: the token next_token returns for the operator or delimiter s.
Symbol(s) ==
    CASE s = "=" -> Token("Assign")
      [] s = "==" -> Token("Eq")
      [] s = "+" -> Token("Plus")
      [] s = "-" -> Token("Minus")
      [] s = "!" -> Token("Bang")
      [] s = "!=" -> Token("NotEq")
      [] s = "*" -> Token("Asterisk")
      [] s = "<" -> Token("LessThan")
      [] s = ">" -> Token("GreaterThan")
      [] s = "/" -> Token("Slash")
      [] s = "," -> Token("Comma")
      [] s = ";" -> Token("Semicolon")
      [] s = "(" -> Token("Lparen")
      [] s = ")" -> Token("Rparen")
      [] s = "{" -> Token("Lbrace")
      [] s = "}" -> Token("Rbrace")
      [] OTHER -> Illegal

(***************************************************************************)
(* ast.rs: Precedence, ordered by its discriminants.                       *)
(***************************************************************************)
Lowest == 0
Equals == 1
LessGreater == 2
Sum == 3
Product == 4
PrefixPrecedence == 5
CallPrecedence == 6

(***************************************************************************)
(* lexer.rs, as the parser sees it: the tokens of the input in order, then *)
(* Eof at every further call.                                              *)
(***************************************************************************)
NewLexer(input) == [input |-> input, position |-> 1]

\* The lexer after the call and the token it returned.
lexer_next_token(l) ==
    IF l.position <= Len(l.input)
    THEN [lexer |-> [l EXCEPT !.position = @ + 1], token |-> l.input[l.position]]
    ELSE [lexer |-> l, token |-> Eof]

(***************************************************************************)
(* lexer.rs: Lexer, on the characters of a source text.  The input is the  *)
(* sequence of its characters, each one byte long, so that the byte at     *)
(* offset i is input[i + 1]; NUL is the character '\0'.                    *)
(***************************************************************************)
NUL == "\\0"

is_ascii_digit(ch) == ch \in {"0", "1", "2", "3", "4", "5", "6", "7", "8", "9"}

\* char::is_alphabetic, on the letters the sources are written with.
is_alphabetic(ch) ==
    ch \in {"a", "b", "c", "e", "f", "i", "l", "n", "r", "s", "t", "u", "x", "y", "z"}

is_alphanumeric(ch) == is_alphabetic(ch) \/ is_ascii_digit(ch)

is_whitespace(ch) == ch \in {" ", "\t", "\n"}

\* read_char as it would be if it started again at the first character after
\* the end of the input: EofForever tells the two apart.
read_char_rewinding(l) ==
    [l EXCEPT !.ch = IF l.read_position >= Len(l.input) THEN NUL
                     ELSE l.input[l.read_position + 1],
              !.position = l.read_position,
              !.read_position = IF l.read_position >= Len(l.input) THEN 0
                                ELSE l.read_position + 1]

read_char(l) ==
    [l EXCEPT !.ch = IF l.read_position >= Len(l.input) THEN NUL
                     ELSE l.input[l.read_position + 1],
              !.position = l.read_position,
              !.read_position = l.read_position + 1]

peek_char(l) ==
    IF l.read_position >= Len(l.input) THEN NUL ELSE l.input[l.read_position + 1]

\* Lexer::new
Lexer(input) ==
    read_char([input |-> input, position |-> 0, read_position |-> 0, ch |-> NUL])

RECURSIVE skip_whitespace(_)
skip_whitespace(l) ==
    IF is_whitespace(l.ch) THEN skip_whitespace(read_char(l)) ELSE l

\* &input[start..end] as a string.
RECURSIVE Slice(_, _, _)
Slice(input, start, end) ==
    IF start >= end THEN "" ELSE input[start + 1] \o Slice(input, start + 1, end)

\* The loop of read_identifier.
RECURSIVE read_identifier_loop(_)
read_identifier_loop(l) ==
    IF is_alphanumeric(l.ch) \/ l.ch = "_" THEN read_identifier_loop(read_char(l)) ELSE l

\* read_identifier with the lexer its loop leaves: the lexer and the String.
read_identifier_slice(l, start_position) ==
    [lexer |-> l, v |-> Slice(l.input, start_position, l.position)]

read_identifier(l) == read_identifier_slice(read_identifier_loop(l), l.position)

\* The loop of read_number.
RECURSIVE read_number_loop(_)
read_number_loop(l) ==
    IF is_ascii_digit(l.ch) THEN read_number_loop(read_char(l)) ELSE l

\* The decimal digits of i64::MAX, 9223372036854775807.
I64MaxDigits ==
    <<"9", "2", "2", "3", "3", "7", "2", "0", "3", "6", "8", "5", "4", "7", "7", "5", "8",
      "0", "7">>

\* char::to_digit(10) of an ASCII digit.
to_digit(ch) == CHOOSE d \in 0 .. 9 : ToString(d) = ch

\* The digits without the zeros they begin with.
RECURSIVE StripZeros(_)
StripZeros(digits) ==
    IF digits # <<>> /\ Head(digits) = "0" THEN StripZeros(Tail(digits)) ELSE digits

\* The number written a is at most the number written b, for as many digits in
\* both.
RECURSIVE DigitsAtMost(_, _)
DigitsAtMost(a, b) ==
    IF a = <<>> THEN TRUE
    ELSE IF to_digit(Head(a)) # to_digit(Head(b)) THEN to_digit(Head(a)) < to_digit(Head(b))
    ELSE DigitsAtMost(Tail(a), Tail(b))

\* str::parse::<i64> is Ok on the digits: the number they write is at most
\* i64::MAX.
parse_i64_is_ok(digits) ==
    \/ Len(StripZeros(digits)) < Len(I64MaxDigits)
    \/ /\ Len(StripZeros(digits)) = Len(I64MaxDigits)
       /\ DigitsAtMost(StripZeros(digits), I64MaxDigits)

\* The value str::parse::<i64> is Ok with on the digits input[start..end], most
\* significant first, given the value n of the digits before them.
RECURSIVE parse_i64(_, _, _, _)
parse_i64(input, start, end, n) ==
    IF start >= end THEN n
    ELSE parse_i64(input, start + 1, end, 10 * n + to_digit(input[start + 1]))

\* read_number as it would be with unwrap_or(-1): DigitRunsLexToOneInt tells the
\* two apart.
read_number_parse_minus_one(l, start_position) ==
    [lexer |-> l,
     v |-> IF parse_i64_is_ok(SubSeq(l.input, start_position + 1, l.position))
           THEN parse_i64(l.input, start_position, l.position, 0)
           ELSE -1]

\* read_number with the lexer its loop leaves: the lexer and the i64, 0 when
\* parse is an Err (unwrap_or(0)).
read_number_parse(l, start_position) ==
    [lexer |-> l,
     v |-> IF parse_i64_is_ok(SubSeq(l.input, start_position + 1, l.position))
           THEN parse_i64(l.input, start_position, l.position, 0)
           ELSE 0]

read_number(l) == read_number_parse(read_number_loop(l), l.position)

\* The early returns of next_token, with the result of read_identifier or of
\* read_number.
next_token_ident(r) == [lexer |-> r.lexer, token |-> lookup_ident(r.v)]

next_token_int(r) == [lexer |-> r.lexer, token |-> TokenInt(r.v)]

\* next_token after skip_whitespace: the lexer it leaves and the token.
next_token_match(l) ==
    IF l.ch \in {"=", "!"} /\ peek_char(l) = "="
    THEN [lexer |-> read_char(read_char(l)), token |-> Symbol(l.ch \o "=")]
    ELSE IF l.ch = NUL THEN [lexer |-> read_char(l), token |-> Eof]
    ELSE IF Symbol(l.ch).type # "Illegal"
    THEN [lexer |-> read_char(l), token |-> Symbol(l.ch)]
    ELSE IF is_alphabetic(l.ch) \/ l.ch = "_" THEN next_token_ident(read_identifier(l))
    ELSE IF is_ascii_digit(l.ch) THEN next_token_int(read_number(l))
    ELSE [lexer |-> read_char(l), token |-> Illegal]

\* Lexer::next_token
Lexer_next_token(l) == next_token_match(skip_whitespace(l))

(***************************************************************************)
(* parser.rs: Parser.  A parse function is an operator from the parser p   *)
(* it is called on to the parser it leaves (field p) and the value it      *)
(* returns (field v).                                                      *)
(***************************************************************************)
ParseError(message, token) == [message |-> message, token |-> token]

next_token(p) ==
    LET r == lexer_next_token(p.lexer) IN
    [p EXCEPT !.current_token = p.peek_token, !.peek_token = r.token, !.lexer = r.lexer]

\* spinning: the skip loop of parse_let_statement is running with the lexer at
\* its end, where no call of next_token can make it stop.
NewParser(l) ==
    next_token(next_token([lexer |-> l, current_token |-> Illegal,
                           peek_token |-> Illegal, errors |-> <<>>, spinning |-> FALSE]))

push_error(p, e) == [p EXCEPT !.errors = Append(@, e)]

\* get_precedence as it would be with Sum and Product exchanged:
\* InfixPrecedenceAndAssociativity tells the two apart.
get_precedence_exchanged(token) ==
    CASE token.type = "Lparen" -> CallPrecedence
      [] token.type \in {"Eq", "NotEq"} -> Equals
      [] token.type \in {"LessThan", "GreaterThan"} -> LessGreater
      [] token.type \in {"Plus", "Minus"} -> Product
      [] token.type \in {"Asterisk", "Slash"} -> Sum
      [] OTHER -> Lowest

get_precedence(token) ==
    CASE token.type = "Lparen" -> CallPrecedence
      [] token.type \in {"Eq", "NotEq"} -> Equals
      [] token.type \in {"LessThan", "GreaterThan"} -> LessGreater
      [] token.type \in {"Plus", "Minus"} -> Sum
      [] token.type \in {"Asterisk", "Slash"} -> Product
      [] OTHER -> Lowest

parse_identifier(p) ==
    IF p.current_token.type = "Ident"
    THEN [p |-> p, v |-> Identifier(p.current_token.id)]
    ELSE [p |-> p, v |-> None]

parse_integer_literal(p) ==
    IF p.current_token.type = "Int"
    THEN [p |-> p, v |-> IntegerLiteral(p.current_token.int)]
    ELSE [p |-> p, v |-> None]

parse_boolean_literal(p) ==
    IF p.current_token.type \in {"True", "False"}
    THEN [p |-> p, v |-> BooleanLiteral(p.current_token.type = "True")]
    ELSE [p |-> p, v |-> None]

\* The tokens parse_expression has an infix arm for besides Lparen.
InfixTokens ==
    {"Plus", "Minus", "Slash", "Asterisk", "Eq", "NotEq", "LessThan", "GreaterThan"}

RECURSIVE parse_expression(_, _)
RECURSIVE parse_expression_loop(_, _, _)
RECURSIVE parse_call_arguments_loop(_, _)
RECURSIVE parse_fn_params_loop(_, _)
RECURSIVE parse_block_statement(_)
RECURSIVE parse_block_statement_loop(_, _)
RECURSIVE parse_statement(_)

\* parse_infix_expression with the result right of its call of parse_expression.
\* parse_infix_expression as it would be if it built the Infix node without its
\* right operand: MissingOperandIsReported tells the two apart.
parse_infix_expression_right_absent(right, left, operator) ==
    IF IsNone(right.v)
    THEN [p |-> push_error(right.p, ParseError("Expected expression after infix operator",
                                               right.p.current_token)),
          v |-> Infix(left, operator, None)]
    ELSE [p |-> right.p, v |-> Infix(left, operator, right.v)]

parse_infix_expression_right(right, left, operator) ==
    IF IsNone(right.v)
    THEN [p |-> push_error(right.p, ParseError("Expected expression after infix operator",
                                               right.p.current_token)),
          v |-> left]
    ELSE [p |-> right.p, v |-> Infix(left, operator, right.v)]

parse_infix_expression(p, left) ==
    parse_infix_expression_right(
        parse_expression(next_token(p), get_precedence(p.current_token)),
        left, to_literal(p.current_token))

\* The while loop of parse_call_arguments with args, and the push of the
\* expression e it parsed.
parse_call_arguments_push(e, args) ==
    parse_call_arguments_loop(e.p, IF IsSome(e.v) THEN Append(args, e.v) ELSE args)

parse_call_arguments_loop(p, args) ==
    IF p.peek_token.type = "Comma"
    THEN parse_call_arguments_push(parse_expression(next_token(next_token(p)), Lowest),
                                   args)
    ELSE [p |-> p, v |-> args]

\* parse_call_arguments after its loop.
parse_call_arguments_end(r) ==
    IF r.p.peek_token.type # "Rparen" THEN r
    ELSE [p |-> next_token(r.p), v |-> r.v]

parse_call_arguments(p) ==
    IF p.peek_token.type = "Rparen" THEN [p |-> next_token(p), v |-> <<>>]
    ELSE parse_call_arguments_end(
             parse_call_arguments_push(parse_expression(next_token(p), Lowest), <<>>))

\* parse_call_expression with the result of parse_call_arguments.
parse_call_expression_arguments(arguments, function) ==
    [p |-> arguments.p, v |-> Call(function, arguments.v)]

parse_call_expression(p, function) ==
    parse_call_expression_arguments(parse_call_arguments(p), function)

\* parse_if_expression from its last step back to its first.
parse_if_expression_alternative(alternative, condition, consequence) ==
    [p |-> alternative.p, v |-> If(condition, consequence, alternative.v)]

parse_if_expression_else(p, condition, consequence) ==
    IF p.peek_token.type = "Lbrace"
    THEN parse_if_expression_alternative(parse_block_statement(next_token(p)),
                                         condition, consequence)
    ELSE [p |-> p, v |-> If(condition, consequence, None)]

parse_if_expression_consequence(consequence, condition) ==
    IF consequence.p.peek_token.type = "Else"
    THEN parse_if_expression_else(next_token(consequence.p), condition, consequence.v)
    ELSE [p |-> consequence.p, v |-> If(condition, consequence.v, None)]

parse_if_expression_lbrace(p, condition) ==
    IF p.current_token.type # "Lbrace" THEN [p |-> p, v |-> None]
    ELSE parse_if_expression_consequence(parse_block_statement(p), condition)

parse_if_expression_condition(condition) ==
    IF condition.p.current_token.type # "Rparen" THEN [p |-> condition.p, v |-> None]
    ELSE parse_if_expression_lbrace(next_token(condition.p), condition.v)

parse_if_expression(p) ==
    IF p.peek_token.type # "Lparen" THEN [p |-> p, v |-> None]
    ELSE parse_if_expression_condition(parse_expression(next_token(p), Lowest))

\* The while loop of parse_fn_params with params; p2 is the parser after the
\* two calls of next_token of an iteration.
parse_fn_params_push(p2, params) ==
    parse_fn_params_loop(p2, Append(params, Identifier(to_literal(p2.current_token))))

parse_fn_params_loop(p, params) ==
    IF p.peek_token.type = "Comma"
    THEN parse_fn_params_push(next_token(next_token(p)), params)
    ELSE [p |-> p, v |-> params]

\* parse_fn_params after the next_token that consumes the last parameter.
parse_fn_params_end(p, params) ==
    IF p.current_token.type # "Rparen" THEN [p |-> p, v |-> <<>>]
    ELSE [p |-> p, v |-> params]

parse_fn_params_last(r) == parse_fn_params_end(next_token(r.p), r.v)

\* parse_fn_params after the next_token that consumes the left parenthesis.
parse_fn_params_first(p) ==
    IF p.current_token.type = "Rparen" THEN [p |-> next_token(p), v |-> <<>>]
    ELSE parse_fn_params_last(
             parse_fn_params_loop(p, <<Identifier(to_literal(p.current_token))>>))

parse_fn_params(p) == parse_fn_params_first(next_token(p))

\* parse_function_literal from its last step back to its first.
parse_function_literal_body(body, parameters) ==
    [p |-> body.p, v |-> Function(parameters, body.v)]

parse_function_literal_parameters(parameters) ==
    IF parameters.p.peek_token.type # "Lbrace"
    THEN [p |-> parameters.p, v |-> Function(parameters.v, Block(<<>>))]
    ELSE parse_function_literal_body(parse_block_statement(next_token(parameters.p)),
                                     parameters.v)

parse_function_literal_lparen(p) ==
    IF p.current_token.type # "Lparen" THEN [p |-> p, v |-> None]
    ELSE parse_function_literal_parameters(parse_fn_params(p))

parse_function_literal(p) == parse_function_literal_lparen(next_token(p))

\* parse_grouped_expression with the result of its call of parse_expression.
parse_grouped_expression_end(expression) ==
    IF expression.p.peek_token.type # "Rparen" THEN expression
    ELSE [p |-> next_token(expression.p), v |-> expression.v]

parse_grouped_expression(p) ==
    parse_grouped_expression_end(parse_expression(next_token(p), Lowest))

\* parse_prefix_expression with the result right of its call of parse_expression
\* (the Bang | Minus arm) or of parse_grouped_expression (the Lbrace arm).
parse_prefix_expression_right(right, operator) ==
    [p |-> IF IsNone(right.v)
           THEN push_error(right.p, ParseError("Expected expression after prefix operator",
                                               right.p.current_token))
           ELSE right.p,
     v |-> Prefix(operator, right.v)]

parse_prefix_expression_grouped(right, operator) ==
    [p |-> right.p, v |-> Prefix(operator, right.v)]

\* parse_prefix_expression as it would be if the operand were parsed at the
\* lowest precedence: PrefixBindsTighter tells the two apart.
parse_prefix_expression_lowest(p) ==
    IF p.current_token.type \in {"Bang", "Minus"}
    THEN parse_prefix_expression_right(parse_expression(next_token(p), Lowest),
                                       to_literal(p.current_token))
    ELSE IF p.current_token.type = "Lbrace"
    THEN parse_prefix_expression_grouped(parse_grouped_expression(p),
                                         to_literal(p.current_token))
    ELSE [p |-> p, v |-> None]

parse_prefix_expression(p) ==
    IF p.current_token.type \in {"Bang", "Minus"}
    THEN parse_prefix_expression_right(parse_expression(next_token(p), PrefixPrecedence),
                                       to_literal(p.current_token))
    ELSE IF p.current_token.type = "Lbrace"
    THEN parse_prefix_expression_grouped(parse_grouped_expression(p),
                                         to_literal(p.current_token))
    ELSE [p |-> p, v |-> None]

\* parse_expression with the result prefix of the prefix function.
parse_expression_prefix(prefix, precedence) ==
    IF IsNone(prefix.v) THEN prefix
    ELSE parse_expression_loop(prefix.p, precedence, prefix.v)

parse_expression(p, precedence) ==
    parse_expression_prefix(
        CASE p.current_token.type = "Ident" -> parse_identifier(p)
          [] p.current_token.type = "Int" -> parse_integer_literal(p)
          [] p.current_token.type \in {"Bang", "Minus"} -> parse_prefix_expression(p)
          [] p.current_token.type \in {"True", "False"} -> parse_boolean_literal(p)
          [] p.current_token.type = "Lparen" -> parse_grouped_expression(p)
          [] p.current_token.type = "If" -> parse_if_expression(p)
          [] p.current_token.type = "Function" -> parse_function_literal(p)
          [] OTHER -> [p |-> p, v |-> None],
        precedence)

\* The while loop of parse_expression with left_expression, and its next
\* iteration with the result r of the infix function.
parse_expression_next(r, precedence) == parse_expression_loop(r.p, precedence, r.v)

parse_expression_loop(p, precedence, left_expression) ==
    IF p.peek_token.type # "Semicolon" /\ precedence < get_precedence(p.peek_token)
    THEN IF p.peek_token.type = "Lparen"
         THEN parse_expression_next(parse_call_expression(p, left_expression), precedence)
         ELSE IF p.peek_token.type \in InfixTokens
         THEN parse_expression_next(parse_infix_expression(next_token(p), left_expression),
                                    precedence)
         ELSE [p |-> p, v |-> left_expression]
    ELSE [p |-> p, v |-> left_expression]

\* A Result<Box<Node>, ParseError>: v is the node when ok, else the error.
Ok(p, n) == [p |-> p, ok |-> TRUE, v |-> n]

Err(p, e) == [p |-> p, ok |-> FALSE, v |-> e]

\* The loop of parse_let_statement that skips to the semicolon.  At Eof the
\* lexer has only Eof to give and the loop cannot stop.
RECURSIVE parse_let_statement_loop(_)
parse_let_statement_loop(p) ==
    IF p.current_token.type = "Semicolon" THEN p
    ELSE IF p.current_token.type = "Eof" THEN [p EXCEPT !.spinning = TRUE]
    ELSE parse_let_statement_loop(next_token(p))

\* parse_let_statement with the result value of its call of parse_expression.
parse_let_statement_value(value, name) ==
    Ok(parse_let_statement_loop(value.p), Let(Identifier(name), value.v))

\* parse_let_statement as it would be if a missing `=` were not reported and the
\* statement were parsed from the token after the name: BrokenLetsReportOneError
\* tells the two apart.
parse_let_statement_name_lenient(p) ==
    IF p.current_token.type # "Ident"
    THEN Err(p, ParseError("Expected identifier after 'let'", p.current_token))
    ELSE parse_let_statement_value(parse_expression(next_token(p), Lowest),
                                   p.current_token.id)

\* parse_let_statement after the next_token that moves past `let`.
parse_let_statement_name(p) ==
    IF p.current_token.type # "Ident"
    THEN Err(p, ParseError("Expected identifier after 'let'", p.current_token))
    ELSE IF p.peek_token.type # "Assign"
    THEN Err(p, ParseError("Expected '=' after variable name", p.current_token))
    ELSE parse_let_statement_value(parse_expression(next_token(next_token(p)), Lowest),
                                   p.current_token.id)

parse_let_statement(p) == parse_let_statement_name(next_token(p))

\* The loop of parse_return_statement that moves on while a semicolon is next.
RECURSIVE parse_return_statement_loop(_)
parse_return_statement_loop(p) ==
    IF p.peek_token.type = "Semicolon" THEN parse_return_statement_loop(next_token(p))
    ELSE p

\* parse_return_statement with the result of its call of parse_expression.
parse_return_statement_value(return_value) ==
    Ok(return_value.p, Return(return_value.v))

parse_return_statement(p) ==
    parse_return_statement_value(
        parse_expression(parse_return_statement_loop(next_token(p)), Lowest))

\* parse_expression_statement with the result of its call of parse_expression.
parse_expression_statement_end(expression) ==
    Ok(IF expression.p.peek_token.type = "Semicolon" THEN next_token(expression.p)
       ELSE expression.p,
       ExprStmt(expression.v))

parse_expression_statement(p) ==
    parse_expression_statement_end(parse_expression(p, Lowest))

parse_statement(p) ==
    CASE p.current_token.type = "Let" -> parse_let_statement(p)
      [] p.current_token.type = "Return" -> parse_return_statement(p)
      [] OTHER -> parse_expression_statement(p)

\* What one iteration of the statement loops of parse_program and
\* parse_block_statement does with the result r of parse_statement: the push of
\* the statement or of the error, then next_token.
push_statement(r, stmts) ==
    IF r.ok THEN [p |-> next_token(r.p), v |-> Append(stmts, r.v)]
    ELSE [p |-> next_token(push_error(r.p, r.v)), v |-> stmts]

\* The while loop of parse_block_statement with the statements stmts, and
\* its next iteration.
parse_block_statement_next(r) == parse_block_statement_loop(r.p, r.v)

parse_block_statement_loop(p, stmts) ==
    IF p.current_token.type # "Rbrace" /\ p.current_token.type # "Eof"
    THEN parse_block_statement_next(push_statement(parse_statement(p), stmts))
    ELSE [p |-> p, v |-> Block(stmts)]

parse_block_statement(p) == parse_block_statement_loop(next_token(p), <<>>)

(***************************************************************************)
(* parse_program: one action per iteration of its loop, one for its return.*)
(***************************************************************************)
\* The iteration with the statements s.v and the parser s.p it leaves.
parse_program_next(s) ==
    pc' = pc /\ parser' = s.p /\ statements' = s.v

\* The iteration with the result r of parse_statement.
parse_program_push(r) ==
    IF r.p.spinning THEN pc' = "spinning" /\ parser' = r.p /\ statements' = statements
    ELSE parse_program_next(push_statement(r, statements))

parse_program_statement ==
    /\ pc = "parse" /\ parser.current_token.type # "Eof"
    /\ parse_program_push(parse_statement(parser))
    /\ UNCHANGED <<program, heap, stack, node, env, obj, result, lexer, lexed>>

\* One more iteration of the skip loop of parse_let_statement at the end of the
\* input: next_token gives Eof again and the loop condition still holds.
parse_let_statement_spin ==
    /\ pc = "spinning" /\ parser.current_token.type # "Semicolon"
    /\ parser' = next_token(parser)
    /\ UNCHANGED <<program, heap, stack, pc, node, env, obj, result, statements, lexer, lexed>>

parse_program ==
    /\ pc = "parse" /\ parser.current_token.type = "Eof"
    /\ program' = Program(statements)
    /\ pc' = "parsed"
    /\ UNCHANGED <<heap, stack, node, env, obj, result, parser, statements, lexer, lexed>>

\* The caller of parse_program hands the Program to the evaluator with a new
\* environment.
eval_parsed ==
    /\ pc = "parsed"
    /\ Enter(program, 1, <<>>)
    /\ UNCHANGED <<program, heap, result, parser, statements, lexer, lexed>>

\* The calls of next_token after the last token of the input that are followed.
MaxEofCalls == 3

\* The caller calls lexer.next_token() once more and keeps the token.  Every
\* token but Eof takes at least one character of the input.
lex_next_token ==
    /\ pc = "lex"
    /\ Len(lexed) < Len(lexer.input) + MaxEofCalls
    /\ lexer' = Lexer_next_token(lexer).lexer
    /\ lexed' = Append(lexed, Lexer_next_token(lexer).token)
    /\ UNCHANGED <<program, heap, stack, pc, node, env, obj, result, parser, statements>>

Next ==
    \/ lex_next_token
    \/ parse_program_statement \/ parse_let_statement_spin \/ parse_program
    \/ eval_parsed
    \/ eval_program \/ eval_program_statement
    \/ eval_ExprStmt \/ eval_IntegerLiteral \/ eval_BooleanLiteral
    \/ pre_eval_prefix_expression \/ pre_eval_prefix_expression_right
    \/ pre_eval_infix_expression \/ pre_eval_infix_expression_left
    \/ pre_eval_infix_expression_right
    \/ eval_if_statement \/ eval_if_statement_condition
    \/ eval_return_statement \/ eval_return_statement_value
    \/ eval_identifier
    \/ eval_let_statement \/ eval_let_statement_value
    \/ eval_function_literal
    \/ eval_call_expression \/ eval_call_expression_function
    \/ eval_expressions_expression \/ apply_function_body
    \/ eval_block_statement \/ eval_block_statement_statement
    \/ evaluated

\* The caller's state before `evaluator.eval(program, env)` for the program p.
Start(p) ==
    /\ program = p
    /\ heap = <<NewEnvironment>>
    /\ stack = <<>>
    /\ pc = "eval" /\ node = p /\ env = 1
    /\ obj = None /\ result = None
    /\ parser = None /\ statements = <<>>
    /\ lexer = None /\ lexed = <<>>

(***************************************************************************)
(* The programs the evaluator is run on.                                   *)
(***************************************************************************)
MaxInt == 1

Ints == (0 - MaxInt) .. MaxInt

TrueLit == BooleanLiteral(TRUE)

FalseLit == BooleanLiteral(FALSE)

\* `u` is bound by no program: its value is Error("identifier not found: u").
ErrExpr == Identifier("u")

\* `if (false) { }`: an expression whose value is Null.
NullExpr == If(FalseLit, Block(<<>>), None)

Values == {IntegerLiteral(n) : n \in 1 .. MaxInt} \cup {ErrExpr, NullExpr}

Stmts0 == {ExprStmt(v) : v \in Values} \cup {Return(v) : v \in Values} \cup {Return(None)}

Blocks0 ==
    {Block(<<>>)} \cup {Block(<<s>>) : s \in Stmts0}
        \cup {Block(<<s, t>>) : s \in Stmts0, t \in Stmts0}

Ifs ==
    {If(TrueLit, b, None) : b \in Blocks0}
        \cup {If(FalseLit, Block(<<ExprStmt(IntegerLiteral(1))>>), b) :
                b \in Blocks0 \cup {None}}
        \cup {If(ErrExpr, Block(<<ExprStmt(IntegerLiteral(1))>>), None)}

\* A statement that holds an if-expression: as an expression statement, as the
\* value of a return or of a let, as an operand.
Stmts1 ==
    Stmts0 \cup {ExprStmt(i) : i \in Ifs} \cup {Return(i) : i \in Ifs}
        \cup {Let(Identifier("x"), i) : i \in Ifs}
        \cup {ExprStmt(Prefix("!", i)) : i \in Ifs}
        \cup {ExprStmt(Infix(i, "+", IntegerLiteral(1))) : i \in Ifs}

\* The statement after the one of interest: it binds z when it is evaluated.
Probe == Let(Identifier("z"), IntegerLiteral(1))

\* The statement after the enclosing if or call: it binds w when it is evaluated.
OuterProbe == Let(Identifier("w"), IntegerLiteral(1))

Bodies == {<<s>> : s \in Stmts1} \cup {<<s, Probe>> : s \in Stmts1}

\* The statements at top level, inside the block of an if, inside a function body.
ReturnPrograms ==
    {Program(b) : b \in Bodies}
        \cup {Program(<<ExprStmt(If(TrueLit, Block(b), None)), OuterProbe>>) : b \in Bodies}
        \cup {Program(<<ExprStmt(Call(Function(<<>>, Block(b)), <<>>)), OuterProbe>>) :
                b \in Bodies}

\* A call `callee(args)` after `let f = fn(params) { x }`: the callee is f, an
\* expression whose value is an Error, or one whose value is no function.
CallArgs == {IntegerLiteral(1), ErrExpr, TrueLit}

CallPrograms ==
    {Program(<<Let(Identifier("f"), Function(ps, Block(<<ExprStmt(Identifier("x"))>>))),
               ExprStmt(Call(c, as)), OuterProbe>>) :
        ps \in {<<>>, <<Identifier("x")>>, <<Identifier("x"), Identifier("y")>>},
        c \in {Identifier("f"), ErrExpr, IntegerLiteral(1)},
        as \in {<<>>} \cup {<<a>> : a \in CallArgs}
                 \cup {<<a, b>> : a \in CallArgs, b \in CallArgs}}

(***************************************************************************)
(* The sources the parser is run on, as the tokens the lexer gives.        *)
(***************************************************************************)
\* The tokens of a source without integers, written as its words, operators
\* and delimiters.
RECURSIVE Lex(_)
Lex(text) ==
    IF text = <<>> THEN <<>>
    ELSE <<IF Symbol(Head(text)).type # "Illegal" THEN Symbol(Head(text))
           ELSE lookup_ident(Head(text))>> \o Lex(Tail(text))

\* The tokens of the integer n: a minus sign before the digits of a negative one.
Literal(n) == IF n < 0 THEN <<Symbol("-"), TokenInt(0 - n)>> ELSE <<TokenInt(n)>>

\* `let countdown = fn(n) { if (n == 0) { return 0; } else { countdown(n - 1); } };
\*  countdown(n);`
CountdownSource(n) ==
    Lex(<<"let", "countdown", "=", "fn", "(", "n", ")", "{", "if", "(", "n", "==">>)
        \o Literal(0) \o Lex(<<")", "{", "return">>) \o Literal(0)
        \o Lex(<<";", "}", "else", "{", "countdown", "(", "n", "-">>) \o Literal(1)
        \o Lex(<<")", ";", "}", "}", ";", "countdown", "(">>) \o Literal(n)
        \o Lex(<<")", ";">>)

MaxN == 100

CountdownSources == {CountdownSource(n) : n \in 0 .. MaxN}

\* `let makeAdder = fn(x) { fn(y) { x + y } };`
MakeAdderSource ==
    Lex(<<"let", "makeAdder", "=", "fn", "(", "x", ")", "{",
          "fn", "(", "y", ")", "{", "x", "+", "y", "}", "}", ";">>)

\* `let makeAdder = ...; let add = makeAdder(a); add(b);`
AdderSource(a, b) ==
    MakeAdderSource \o Lex(<<"let", "add", "=", "makeAdder", "(">>) \o Literal(a)
        \o Lex(<<")", ";", "add", "(">>) \o Literal(b) \o Lex(<<")", ";">>)

\* `let makeAdder = ...; let add1 = makeAdder(a); let add2 = makeAdder(b); f(c);`
TwoAddersSource(a, b, f, c) ==
    MakeAdderSource \o Lex(<<"let", "add1", "=", "makeAdder", "(">>) \o Literal(a)
        \o Lex(<<")", ";", "let", "add2", "=", "makeAdder", "(">>) \o Literal(b)
        \o Lex(<<")", ";", f, "(">>) \o Literal(c) \o Lex(<<")", ";">>)

AdderSources ==
    {AdderSource(a, b) : a \in Ints, b \in Ints}
        \cup {TwoAddersSource(a, b, f, c) :
                a \in Ints, b \in Ints, f \in {"add1", "add2"}, c \in Ints}

\* `let x = a; let f = fn(y) { x }; let g = fn(x) { f(0) }; g(b);`
ScopeSource(a, b) ==
    Lex(<<"let", "x", "=">>) \o Literal(a)
        \o Lex(<<";", "let", "f", "=", "fn", "(", "y", ")", "{", "x", "}", ";",
                 "let", "g", "=", "fn", "(", "x", ")", "{", "f", "(">>) \o Literal(0)
        \o Lex(<<")", "}", ";", "g", "(">>) \o Literal(b) \o Lex(<<")", ";">>)

ScopeSources == {ScopeSource(a, b) : a \in Ints, b \in Ints}

\* `return if (true) { return 1 }`
ReturnOfReturnSource ==
    Lex(<<"return", "if", "(", "true", ")", "{", "return">>) \o Literal(1) \o Lex(<<"}">>)

\* `fn(x) { return if (true) { return 1 } }(0); let w = 1;`
CallOfReturnOfReturnSource ==
    Lex(<<"fn", "(", "x", ")", "{">>) \o ReturnOfReturnSource
        \o Lex(<<"}", "(">>) \o Literal(0) \o Lex(<<")", ";", "let", "w", "=">>)
        \o Literal(1) \o Lex(<<";">>)

ReturnSources == {ReturnOfReturnSource, CallOfReturnOfReturnSource}

InfixOperators == {"+", "-", "*", "/", "==", "!=", "<", ">"}

\* `f(a) o b`
CallThenInfixSource(o) == Lex(<<"f", "(", "a", ")", o, "b">>)

\* `f(a)(b)`
CallOfCallSource == Lex(<<"f", "(", "a", ")", "(", "b", ")">>)

MaxArgs == 3

\* The text of k comma-separated arguments.
RECURSIVE ArgumentsText(_)
ArgumentsText(k) ==
    IF k = 0 THEN <<>>
    ELSE IF k = 1 THEN <<"a">>
    ELSE ArgumentsText(k - 1) \o <<",", "a">>

\* `f(a, ..., a)` with k arguments.
CallSource(k) == Lex(<<"f", "(">> \o ArgumentsText(k) \o <<")">>)

\* `f(a, ..., a) o b` with k arguments.
CallOfManyThenInfixSource(k, o) == CallSource(k) \o Lex(<<o, "b">>)

CallSources ==
    {CallThenInfixSource(o) : o \in InfixOperators} \cup {CallOfCallSource}
        \cup {CallSource(k) : k \in 0 .. MaxArgs}
        \cup {CallOfManyThenInfixSource(k, o) : k \in 0 .. MaxArgs, o \in InfixOperators}

MaxParams == 2

\* The names of the parameters p1, p2, ...
ParamNames == <<"p", "q", "r">>

\* The text of the parameters p1, ..., pn.
RECURSIVE ParamsText(_)
ParamsText(n) ==
    IF n = 0 THEN <<>>
    ELSE IF n = 1 THEN <<ParamNames[1]>>
    ELSE ParamsText(n - 1) \o <<",", ParamNames[n]>>

\* The statements S of a function body: their text and the nodes they stand for.
FnBodies ==
    {[text |-> <<>>, stmts |-> <<>>],
     [text |-> <<"x">>, stmts |-> <<ExprStmt(Identifier("x"))>>],
     [text |-> <<"x", ";", "y">>,
      stmts |-> <<ExprStmt(Identifier("x")), ExprStmt(Identifier("y"))>>],
     [text |-> <<"x", "+", "y", ";">>,
      stmts |-> <<ExprStmt(Infix(Identifier("x"), "+", Identifier("y")))>>]}

\* `fn(p1, ..., pn) { S }`
FnSource(n, body) == Lex(<<"fn", "(">> \o ParamsText(n) \o <<")", "{">> \o body.text \o <<"}">>)

FnSources == {FnSource(n, body) : n \in 0 .. MaxParams, body \in FnBodies}

\* `let x = 1`, `let x = 1; let y = x`, `fn(x) { let y = x }`: a let statement
\* that no semicolon follows.
LetWithoutSemicolonSources ==
    {Lex(<<"let", "x", "=">>) \o Literal(1),
     Lex(<<"let", "x", "=">>) \o Literal(1) \o Lex(<<";", "let", "y", "=", "x">>),
     Lex(<<"fn", "(", "x", ")", "{", "let", "y", "=", "x", "}">>)}

\* Sources that end inside a block, a group, a parameter list or an argument
\* list, or that start with a closing delimiter.
UnclosedSources ==
    {Lex(<<"fn", "(", "x", ")", "{", "x">>), Lex(<<"if", "(", "x", ")", "{", "x", ";">>),
     Lex(<<"if", "(", "x", ")", "{", "x", "}", "else", "{">>),
     Lex(<<"(", "x", "+">>), Lex(<<"fn", "(", "x", ",">>), Lex(<<"f", "(", "x", ",">>),
     Lex(<<"}", "x">>), Lex(<<")", ";">>), Lex(<<"if", "(">>), Lex(<<"let">>),
     Lex(<<"return">>), Lex(<<"!">>), Lex(<<"x", "+">>)}

\* `a o1 b o2 c`
InfixSource(o1, o2) == Lex(<<"a", o1, "b", o2, "c">>)

\* `(a o1 b) o2 c`
GroupLeftSource(o1, o2) == Lex(<<"(", "a", o1, "b", ")", o2, "c">>)

\* `a o1 (b o2 c)`
GroupRightSource(o1, o2) == Lex(<<"a", o1, "(", "b", o2, "c", ")">>)

PrecedenceSources ==
    {InfixSource(o1, o2) : o1 \in InfixOperators, o2 \in InfixOperators}
        \cup {GroupLeftSource(o1, o2) : o1 \in InfixOperators, o2 \in InfixOperators}
        \cup {GroupRightSource(o1, o2) : o1 \in InfixOperators, o2 \in InfixOperators}

PrefixOperators == {"!", "-"}

\* `p a o b`
PrefixThenInfixSource(q, o) == Lex(<<q, "a", o, "b">>)

\* `p1 p2 a`
NestedPrefixSource(q1, q2) == Lex(<<q1, q2, "a">>)

PrefixSources ==
    {PrefixThenInfixSource(q, o) : q \in PrefixOperators, o \in InfixOperators}
        \cup {NestedPrefixSource(q1, q2) : q1 \in PrefixOperators, q2 \in PrefixOperators}

MaxStatements == 3

\* The value expressions e of the return statements: `x`, `x + y`, `f(x)`, `!x`.
ReturnValueTexts == {<<"x">>, <<"x", "+", "y">>, <<"f", "(", "x", ")">>, <<"!", "x">>}

\* k statements `return e;`
RECURSIVE ReturnStatementsText(_, _)
ReturnStatementsText(k, e) ==
    IF k = 0 THEN <<>> ELSE <<"return">> \o e \o <<";">> \o ReturnStatementsText(k - 1, e)

ReturnStatementsSource(k, e) == Lex(ReturnStatementsText(k, e))

ReturnStatementsSources ==
    {ReturnStatementsSource(k, e) : k \in 1 .. MaxStatements, e \in ReturnValueTexts}

\* The statements of the sources with broken let statements: `let x 1;`,
\* `let = 1;`, `let 1;`, and the well-formed `let y = 1;` and `z;`.  Each with
\* the message of the error it is to give (none: "") and the node it is to give
\* (none: None).
LetItems ==
    {[text |-> Lex(<<"let", "x">>) \o Literal(1) \o Lex(<<";">>),
      message |-> "Expected '=' after variable name", stmt |-> None],
     [text |-> Lex(<<"let", "=">>) \o Literal(1) \o Lex(<<";">>),
      message |-> "Expected identifier after 'let'", stmt |-> None],
     [text |-> Lex(<<"let">>) \o Literal(1) \o Lex(<<";">>),
      message |-> "Expected identifier after 'let'", stmt |-> None],
     [text |-> Lex(<<"let", "y", "=">>) \o Literal(1) \o Lex(<<";">>),
      message |-> "", stmt |-> Let(Identifier("y"), IntegerLiteral(1))],
     [text |-> Lex(<<"z", ";">>),
      message |-> "", stmt |-> ExprStmt(Identifier("z"))]}

LetItemSeqs == UNION {[1 .. k -> LetItems] : k \in 1 .. MaxStatements}

\* The tokens of the statements of items, one after the other.
RECURSIVE LetItemsSource(_)
LetItemsSource(items) ==
    IF items = <<>> THEN <<>> ELSE Head(items).text \o LetItemsSource(Tail(items))

BrokenLetSources == {LetItemsSource(items) : items \in LetItemSeqs}

\* Sources with a character the lexer has no token for, `@`: `@`, `x; @; y;`,
\* `x @`, `let x = @;`, `let @ = 1;`, `x + @`, `!@`, `f(@)`.
IllegalSources ==
    {<<Illegal>>,
     Lex(<<"x", ";">>) \o <<Illegal>> \o Lex(<<";", "y", ";">>),
     Lex(<<"x">>) \o <<Illegal>>,
     Lex(<<"let", "x", "=">>) \o <<Illegal>> \o Lex(<<";">>),
     Lex(<<"let">>) \o <<Illegal>> \o Lex(<<"=">>) \o Literal(1) \o Lex(<<";">>),
     Lex(<<"x", "+">>) \o <<Illegal>>,
     Lex(<<"!">>) \o <<Illegal>>,
     Lex(<<"f", "(">>) \o <<Illegal>> \o Lex(<<")">>)}

\* The tokens that follow an operator with no operand: none (the end of the
\* input), `;`, `)`, `}`, and `; b;`.
OperandlessTails == {<<>>, <<";">>, <<")">>, <<"}">>, <<";", "b", ";">>}

\* `a o` and then a tail: no expression follows the infix operator o.
InfixWithoutRightSource(o, tail) == Lex(<<"a", o>> \o tail)

\* `a * b o` and then a tail.
ProductThenInfixWithoutRightSource(o, tail) == Lex(<<"a", "*", "b", o>> \o tail)

\* `q` and then a tail: no expression follows the prefix operator q.
PrefixWithoutRightSource(q, tail) == Lex(<<q>> \o tail)

\* `a o q` and then a tail: the prefix operator q follows the infix operator o.
InfixThenPrefixWithoutRightSource(o, q, tail) == Lex(<<"a", o, q>> \o tail)

MissingOperandSources ==
    {InfixWithoutRightSource(o, tail) : o \in InfixOperators, tail \in OperandlessTails}
        \cup {ProductThenInfixWithoutRightSource(o, tail) :
                o \in InfixOperators, tail \in OperandlessTails}
        \cup {PrefixWithoutRightSource(q, tail) :
                q \in PrefixOperators, tail \in OperandlessTails}
        \cup {InfixThenPrefixWithoutRightSource(o, q, tail) :
                o \in InfixOperators, q \in PrefixOperators, tail \in OperandlessTails}

Sources ==
    MissingOperandSources \cup CountdownSources \cup AdderSources \cup ScopeSources \cup ReturnSources
        \cup CallSources \cup FnSources \cup LetWithoutSemicolonSources
        \cup UnclosedSources \cup PrecedenceSources \cup PrefixSources
        \cup ReturnStatementsSources \cup BrokenLetSources
        \cup IllegalSources

\* The caller's state before `parser.parse_program()` on the tokens of a source.
StartSource(tokens) ==
    /\ program = None
    /\ heap = <<NewEnvironment>>
    /\ stack = <<>>
    /\ pc = "parse" /\ node = None /\ env = 0
    /\ obj = None /\ result = None
    /\ parser = NewParser(NewLexer(tokens)) /\ statements = <<>>
    /\ lexer = None /\ lexed = <<>>

(***************************************************************************)
(* The source texts the lexer is run on: every text of at most MaxTextLen  *)
(* characters over a letter or two, digits, the operators `=` and `!`, and *)
(* the space.                                                              *)
(***************************************************************************)
MaxTextLen == 4

TextChars == {"f", "n", "0", "1", "=", "!", " "}

ShortTexts == UNION {[1 .. k -> TextChars] : k \in 0 .. MaxTextLen}

\* Integer literals at the ends of what an i64 and the model's integers hold:
\* 9 twenty times, i64::MAX + 1, nineteen zeros before 7, 2147483647, and the
\* first of them before ` 1`.
LongDigitRuns ==
    {[i \in 1 .. 20 |-> "9"],
     [I64MaxDigits EXCEPT ![19] = "8"],
     [i \in 1 .. 20 |-> IF i = 20 THEN "7" ELSE "0"],
     <<"2", "1", "4", "7", "4", "8", "3", "6", "4", "7">>}

Texts == ShortTexts \cup LongDigitRuns \cup {[i \in 1 .. 20 |-> "9"] \o <<" ", "1">>}

\* The caller's state after `Lexer::new(text)`.
StartText(text) ==
    /\ program = None
    /\ heap = <<NewEnvironment>>
    /\ stack = <<>>
    /\ pc = "lex" /\ node = None /\ env = 0
    /\ obj = None /\ result = None
    /\ parser = None /\ statements = <<>>
    /\ lexer = Lexer(text) /\ lexed = <<>>

\* The tokens the parser was given; none when the caller built the Node itself.
Input == IF IsNone(parser) THEN <<>> ELSE parser.lexer.input

\* The operands of an infix expression: integers, Booleans, and expressions
\* whose value is Null, a Function, a ReturnValue.
FnExpr == Function(<<>>, Block(<<>>))

ReturnValueExpr == If(TrueLit, Block(<<Return(IntegerLiteral(1))>>), None)

Operands ==
    {IntegerLiteral(n) : n \in Ints} \cup {TrueLit, FalseLit, NullExpr, FnExpr, ReturnValueExpr}

\* `l o r` for the operators of the language and one that is none of them, `&`.
InfixPrograms ==
    {Program(<<ExprStmt(Infix(l, o, r))>>) :
        l \in Operands, o \in InfixOperators \cup {"&"}, r \in Operands}

\* The two blocks of the if-expressions: `{ 1 }` and `{ 0 }`.
ConsequenceBlock == Block(<<ExprStmt(IntegerLiteral(1))>>)

AlternativeBlock == Block(<<ExprStmt(IntegerLiteral(0))>>)

\* `if (c) { 1 }` and `if (c) { 1 } else { 0 }`, then `let w = 1;`, for the
\* conditions c of every type of object.
IfPrograms ==
    {Program(<<ExprStmt(If(c, ConsequenceBlock, a)), OuterProbe>>) :
        c \in Operands \cup {ErrExpr}, a \in {None, AlternativeBlock}}

\* `let x = a; let f = fn(y) { let x = b; x }; f(0); x;`
LetShadowProgram(a, b) ==
    Program(<<Let(Identifier("x"), IntegerLiteral(a)),
              Let(Identifier("f"),
                  Function(<<Identifier("y")>>,
                           Block(<<Let(Identifier("x"), IntegerLiteral(b)),
                                   ExprStmt(Identifier("x"))>>))),
              ExprStmt(Call(Identifier("f"), <<IntegerLiteral(0)>>)),
              ExprStmt(Identifier("x"))>>)

\* `let x = a; let f = fn(x) { x }; f(b); x;`
ParamShadowProgram(a, b) ==
    Program(<<Let(Identifier("x"), IntegerLiteral(a)),
              Let(Identifier("f"),
                  Function(<<Identifier("x")>>, Block(<<ExprStmt(Identifier("x"))>>))),
              ExprStmt(Call(Identifier("f"), <<IntegerLiteral(b)>>)),
              ExprStmt(Identifier("x"))>>)

ShadowPrograms ==
    {LetShadowProgram(a, b) : a \in Ints, b \in Ints}
        \cup {ParamShadowProgram(a, b) : a \in Ints, b \in Ints}

\* `if (c) { let y = 1 } else { let y = 0 }; y;`
IfLetProgram(c) ==
    Program(<<ExprStmt(If(BooleanLiteral(c),
                          Block(<<Let(Identifier("y"), IntegerLiteral(1))>>),
                          Block(<<Let(Identifier("y"), IntegerLiteral(0))>>))),
              ExprStmt(Identifier("y"))>>)

\* `fn(p) { if (p) { let y = 1 } else { let y = 0 }; y }(c); y;`
CallIfLetProgram(c) ==
    Program(<<ExprStmt(Call(Function(<<Identifier("p")>>,
                                     Block(<<ExprStmt(If(Identifier("p"),
                                               Block(<<Let(Identifier("y"), IntegerLiteral(1))>>),
                                               Block(<<Let(Identifier("y"), IntegerLiteral(0))>>))),
                                             ExprStmt(Identifier("y"))>>)),
                            <<BooleanLiteral(c)>>)),
              ExprStmt(Identifier("y"))>>)

IfLetPrograms == {IfLetProgram(c) : c \in BOOLEAN} \cup {CallIfLetProgram(c) : c \in BOOLEAN}

\* `let x = v;` and `let x = 1; let x = v;`, then `let w = 1;`, for a value v of
\* every type of object.
LetPrograms ==
    {Program(<<Let(Identifier("x"), v), OuterProbe>>) : v \in Operands \cup {ErrExpr}}
        \cup {Program(<<Let(Identifier("x"), IntegerLiteral(1)), Let(Identifier("x"), v),
                        OuterProbe>>) : v \in Operands \cup {ErrExpr}}

\* `let x = 1; let f = fn(p1, ..., pn) { x }; f(0, ..., 0);` with k arguments,
\* for the parameters x, y and z.
ArityProgram(n, k) ==
    Program(<<Let(Identifier("x"), IntegerLiteral(1)),
              Let(Identifier("f"),
                  Function([i \in 1 .. n |-> Identifier(<<"x", "y", "z">>[i])],
                           Block(<<ExprStmt(Identifier("x"))>>))),
              ExprStmt(Call(Identifier("f"), [i \in 1 .. k |-> IntegerLiteral(0)]))>>)

ArityPrograms == {ArityProgram(n, k) : n \in 0 .. 3, k \in 0 .. MaxArgs}

Programs ==
    ReturnPrograms \cup CallPrograms \cup InfixPrograms \cup IfPrograms \cup ShadowPrograms
        \cup IfLetPrograms \cup LetPrograms \cup ArityPrograms

Init ==
    \/ \E p \in Programs : Start(p)
    \/ \E tokens \in Sources : StartSource(tokens)
    \/ \E text \in Texts : StartText(text)

Spec == Init /\ [][Next]_vars



(***************************************************************************)
(* Properties of return values (evaluator.rs against the specification).   *)
(***************************************************************************)
\* C1: the object a finished top-level evaluation of a Program hands to its
\* caller is never a ReturnValue wrapper.
ProgramResultNeverReturnValue ==
    pc = "done" => result.type # "RETURN_VALUE"

\* A step in which the evaluation of a Call node returns its value.
CallReturns ==
    /\ pc' = "return"
    /\ \/ Evaluating("Call")
       \/ /\ pc = "return" /\ stack # <<>>
          /\ Head(stack).fn \in {"eval_call_expression", "eval_expressions",
                                 "apply_function"}

\* C2: the value the evaluation of a Call node produces is never a ReturnValue,
\* so that a return inside the callee ends that call only.
CallValueNeverReturnValue ==
    [][CallReturns => obj'.type # "RETURN_VALUE"]_vars

\* Statement i of a Block has executed a return: it yielded a ReturnValue, or it
\* is a Return node whose evaluation yielded no Error.
BlockStatementReturned ==
    /\ Resuming("eval_block_statement", "statement")
    /\ \/ obj.type = "RETURN_VALUE"
       \/ /\ Head(stack).statements[Head(stack).i].kind = "Return"
          /\ ~is_error(obj)

\* C3: once a statement of a Block has executed a return (a returned Null and a
\* return with no value included) the Block evaluates no later statement and
\* hands the pending return to its caller.
BlockReturnAbsorbing ==
    [][BlockStatementReturned =>
         pc' = "return" /\ stack' = Tail(stack) /\ obj'.type = "RETURN_VALUE"]_vars

\* A step in which the evaluation of a Return node returns its value.
ReturnReturns ==
    /\ pc' = "return"
    /\ Evaluating("Return") \/ Resuming("eval_return_statement", "value")

\* C4: a Return node yields the Error of its value expression or a ReturnValue
\* wrapping its value; with no value expression it yields ReturnValue(Null).
ReturnYieldsErrorOrReturnValue ==
    [][ReturnReturns =>
         /\ obj'.type \in {"ERROR", "RETURN_VALUE"}
         /\ Resuming("eval_return_statement", "value") /\ ~is_error(obj)
                => obj'.type = "RETURN_VALUE" /\ obj'.value = obj
         /\ Resuming("eval_return_statement", "value") /\ is_error(obj) => obj' = obj
         /\ Evaluating("Return") => obj'.type = "RETURN_VALUE" /\ IsNull(obj'.value)]_vars

\* The functions waiting on the stack are Blocks entered through if expressions
\* in statement position, down to the Program.
RECURSIVE BlocksOfProgram(_)
BlocksOfProgram(stk) ==
    IF stk = <<>> THEN FALSE
    ELSE IF Head(stk).fn = "eval_program" THEN Tail(stk) = <<>>
    ELSE Head(stk).fn = "eval_block_statement" /\ BlocksOfProgram(Tail(stk))

\* C5: a Block whose statement yielded ReturnValue(v), v not Null, returns that
\* ReturnValue still wrapped without evaluating a later statement; through
\* nested if-blocks it reaches the Program, whose result is v.
BlockForwardsReturnValue ==
    [][/\ Resuming("eval_block_statement", "statement")
            /\ obj.type = "RETURN_VALUE" /\ ~IsNull(obj.value)
          => /\ pc' = "return" /\ stack' = Tail(stack)
             /\ obj'.type = "RETURN_VALUE" /\ obj'.value = obj.value
       /\ Resuming("eval_program", "statement")
            /\ obj.type = "RETURN_VALUE" /\ ~IsNull(obj.value)
          => /\ pc' = "return" /\ stack' = Tail(stack)
             /\ obj'.type = obj.value.type /\ obj' = obj.value
       /\ pc = "return" /\ stack = <<>> => pc' = "done" /\ result' = obj]_vars

\* A ReturnValue(v), v not Null, is returned to the inner of two nested Blocks
\* of the Program, each of them and the Program with a later statement.
BlockForwardsReturnValueWitness ==
    /\ pc = "return" /\ obj.type = "RETURN_VALUE" /\ ~IsNull(obj.value)
    /\ Len(stack) = 3 /\ BlocksOfProgram(stack)
    /\ \A k \in 1 .. 3 : stack[k].i < Len(stack[k].statements)

\* C6: an Error returned to a waiting function (Program, Block, prefix operand,
\* infix left operand, if condition, let value, callee) is what that function
\* returns at once: nothing more is evaluated and no binding is made.
ErrorShortCircuits ==
    [][pc = "return" /\ is_error(obj) =>
         /\ heap' = heap
         /\ \/ stack = <<>> /\ pc' = "done" /\ result' = obj
            \/ /\ stack # <<>> /\ pc' = "return" /\ obj' = obj
               /\ stack' = IF Head(stack).fn = "eval_expressions"
                           THEN Tail(Tail(stack)) ELSE Tail(stack)]_vars

\* An Error is returned to a Block with a later let statement.
ErrorShortCircuitsWitness ==
    /\ Resuming("eval_block_statement", "statement") /\ is_error(obj)
    /\ Head(stack).i < Len(Head(stack).statements)
    /\ Head(stack).statements[Head(stack).i + 1].kind = "Let"


(***************************************************************************)
(* Properties of environments, closures and recursion.                     *)
(***************************************************************************)
\* The function being applied in a step that creates an environment frame.
AppliedFunction ==
    IF Resuming("eval_call_expression", "function") THEN obj ELSE stack[2].function

\* C7: the frame a function application creates has as outer link the
\* environment the function captured, not the caller's, so that a name free in
\* the body of f resolves where f was defined: with g's frame binding x to b,
\* `let x = a; let f = fn(y) { x }; let g = fn(x) { f(0) }; g(b);` is a.
FrameOuterIsCapturedEnv ==
    [][/\ Len(heap') # Len(heap) =>
            /\ Len(heap') = Len(heap) + 1
            /\ heap'[Len(heap')].outer = AppliedFunction.env
            /\ pc' = "eval" => env' = Len(heap')
       /\ pc' = "done" =>
            \A a \in Ints, b \in Ints :
                Input = ScopeSource(a, b) => result'.type = "INTEGER" /\ result'.value = a
      ]_vars

\* f has run in a frame whose outer link is the global frame while its caller's
\* frame binds x to another value than the global frame does.
FrameOuterIsCapturedEnvWitness ==
    /\ pc = "done" /\ Input \in ScopeSources
    /\ Len(heap) = 3 /\ heap[3].outer = 1 /\ heap[2].outer = 1
    /\ "x" \in DOMAIN heap[2].store /\ "x" \in DOMAIN heap[1].store
    /\ heap[2].store["x"].value # heap[1].store["x"].value
    /\ result.type = "INTEGER" /\ result.value = heap[1].store["x"].value

\* C8: the function makeAdder(a) returns still sees the x of that call after the
\* call has returned: add(b) is a + b, and of two closures each sees its own x.
ClosuresKeepTheirFrame ==
    pc = "done" =>
        \A a \in Ints, b \in Ints :
            /\ Input = AdderSource(a, b)
                 => result.type = "INTEGER" /\ result.value = a + b
            /\ \A c \in Ints :
                 /\ Input = TwoAddersSource(a, b, "add1", c)
                      => result.type = "INTEGER" /\ result.value = a + c
                 /\ Input = TwoAddersSource(a, b, "add2", c)
                      => result.type = "INTEGER" /\ result.value = b + c

\* The first of two closures with different x has been called after the second
\* was made, and the frames of both calls of makeAdder still hold their x.
ClosuresKeepTheirFrameWitness ==
    /\ pc = "done"
    /\ \E a \in Ints, b \in Ints, c \in Ints :
         /\ a # b /\ Input = TwoAddersSource(a, b, "add1", c)
         /\ result.type = "INTEGER" /\ result.value = a + c
         /\ heap[2].store["x"].value = a /\ heap[3].store["x"].value = b

\* C9: for every n from 0 to 100 the evaluation of
\* `let countdown = fn(n) { if (n == 0) { return 0; } else { countdown(n - 1); } };
\*  countdown(n);` ends with Integer(0).
CountdownYieldsZero ==
    pc = "done" =>
        \A n \in 0 .. MaxN :
            Input = CountdownSource(n) => result.type = "INTEGER" /\ result.value = 0

(***************************************************************************)
(* Properties of the parser.                                               *)
(***************************************************************************)
\* C10: the argument list of a call ends at the `)` that closes it: `f(a) o b`
\* parses to Infix(Call(f, [a]), o, b), `f(a)(b)` to Call(Call(f, [a]), [b]),
\* and a call has as many arguments as expressions between its parentheses.
CallArgumentsEndAtRparen ==
    pc = "parsed" =>
        /\ \A o \in InfixOperators :
             Input = CallThenInfixSource(o) =>
                program.statements =
                    <<ExprStmt(Infix(Call(Identifier("f"), <<Identifier("a")>>), o,
                                     Identifier("b")))>>
        /\ Input = CallOfCallSource =>
             program.statements =
                 <<ExprStmt(Call(Call(Identifier("f"), <<Identifier("a")>>),
                                 <<Identifier("b")>>))>>
        /\ \A k \in 0 .. MaxArgs :
             Input = CallSource(k) =>
                /\ Len(program.statements) = 1
                /\ program.statements[1].expression.kind = "Call"
                /\ Len(program.statements[1].expression.arguments) = k

\* The Function node of `fn(p1, ..., pn) { S }`.
FnNode(n, body) ==
    Function([k \in 1 .. n |-> Identifier(ParamNames[k])], Block(body.stmts))

\* What parse_function_literal returned is the Function node of the source, with
\* the parser left on the closing brace of the body.
FunctionLiteralParsed(r, n, body) ==
    /\ r.v = FnNode(n, body)
    /\ r.p.current_token = Token("Rbrace")

\* C11: for every parameter count n >= 0 and body S, parse_function_literal on
\* `fn(p1, ..., pn) { S }` yields the Function node with the parameters p1..pn
\* in order and the Block of S as its body, leaving the current token on the
\* closing brace; the Program parsed from it is that one expression statement.
FunctionLiteralParses ==
    (pc = "parse" /\ statements = <<>>) \/ pc = "parsed" =>
      \A n \in 0 .. MaxParams, body \in FnBodies :
        Input = FnSource(n, body) =>
          /\ pc = "parse" =>
                FunctionLiteralParsed(parse_function_literal(parser), n, body)
          /\ pc = "parsed" => program = Program(<<ExprStmt(FnNode(n, body))>>)

\* C12: parse_program terminates on every finite input, well-formed or not: each
\* iteration of its loop comes back from parse_statement, to the next iteration
\* or to the return of the Program, and never stays in a loop inside it.
ParseProgramTerminates ==
    [][pc = "parse" => pc' \in {"parse", "parsed"}]_vars

\* The level of an infix operator in the precedence table: equality, comparison,
\* sum, product.
OperatorLevel(o) ==
    CASE o \in {"==", "!="} -> 1
      [] o \in {"<", ">"} -> 2
      [] o \in {"+", "-"} -> 3
      [] o \in {"*", "/"} -> 4

Operand(name) == Identifier(name)

LeftNested(o1, o2) == Infix(Infix(Operand("a"), o1, Operand("b")), o2, Operand("c"))

RightNested(o1, o2) == Infix(Operand("a"), o1, Infix(Operand("b"), o2, Operand("c")))

\* The parser returned the Program of the one expression statement e, with no
\* error.
ParsedAs(e) ==
    program = Program(<<ExprStmt(e)>>) /\ parser.errors = <<>>

\* C13: `a o1 b o2 c` parses to ((a o1 b) o2 c) when the level of o1 is at least
\* that of o2 and to (a o1 (b o2 c)) when it is lower; a parenthesised group is
\* one operand whatever the operators around it.
InfixPrecedenceAndAssociativity ==
    pc = "parsed" =>
      \A o1 \in InfixOperators, o2 \in InfixOperators :
        /\ Input = InfixSource(o1, o2) =>
              ParsedAs(IF OperatorLevel(o1) >= OperatorLevel(o2)
                       THEN LeftNested(o1, o2) ELSE RightNested(o1, o2))
        /\ Input = GroupLeftSource(o1, o2) => ParsedAs(LeftNested(o1, o2))
        /\ Input = GroupRightSource(o1, o2) => ParsedAs(RightNested(o1, o2))

\* `a + b * c` has been parsed to (a + (b * c)).
InfixPrecedenceAndAssociativityWitness ==
    /\ pc = "parsed" /\ Input = InfixSource("+", "*")
    /\ ParsedAs(RightNested("+", "*"))

\* C14: a prefix operator binds tighter than every infix operator: `p a o b`
\* parses to Infix(Prefix(p, a), o, b) and `p1 p2 a` to Prefix(p1, Prefix(p2, a)).
PrefixBindsTighter ==
    pc = "parsed" =>
      /\ \A q \in PrefixOperators, o \in InfixOperators :
            Input = PrefixThenInfixSource(q, o) =>
              ParsedAs(Infix(Prefix(q, Operand("a")), o, Operand("b")))
      /\ \A q1 \in PrefixOperators, q2 \in PrefixOperators :
            Input = NestedPrefixSource(q1, q2) =>
              ParsedAs(Prefix(q1, Prefix(q2, Operand("a"))))

\* `-a * b` has been parsed to ((-a) * b).
PrefixBindsTighterWitness ==
    /\ pc = "parsed" /\ Input = PrefixThenInfixSource("-", "*")
    /\ ParsedAs(Infix(Prefix("-", Operand("a")), "*", Operand("b")))

\* C15: a return statement consumes its semicolon: a source of k statements
\* `return e;` parses to a Program of exactly k statements, each a Return node,
\* with no parse error.
ReturnConsumesSemicolon ==
    pc = "parsed" =>
      \A k \in 1 .. MaxStatements, e \in ReturnValueTexts :
        Input = ReturnStatementsSource(k, e) =>
          /\ Len(program.statements) = k
          /\ \A i \in 1 .. k : program.statements[i].kind = "Return"
          /\ parser.errors = <<>>

\* The messages the statements of items are to give, in source order.
RECURSIVE MessagesOf(_)
MessagesOf(items) ==
    IF items = <<>> THEN <<>>
    ELSE (IF Head(items).message = "" THEN <<>> ELSE <<Head(items).message>>)
             \o MessagesOf(Tail(items))

\* The nodes of the well-formed statements of items, in source order.
RECURSIVE StatementsOf(_)
StatementsOf(items) ==
    IF items = <<>> THEN <<>>
    ELSE (IF IsNone(Head(items).stmt) THEN <<>> ELSE <<Head(items).stmt>>)
             \o StatementsOf(Tail(items))

\* The nodes of stmts that a well-formed statement of LetItems gives.
RECURSIVE WellFormedOf(_)
WellFormedOf(stmts) ==
    IF stmts = <<>> THEN <<>>
    ELSE (IF \E item \in LetItems : IsSome(item.stmt) /\ item.stmt.kind = Head(stmts).kind
                                     /\ item.stmt = Head(stmts)
          THEN <<Head(stmts)>> ELSE <<>>) \o WellFormedOf(Tail(stmts))

\* C16: each malformed let statement adds exactly one ParseError with its pinned
\* message, the errors are in source order, and the statements after a bad let
\* are still parsed.
BrokenLetsReportOneError ==
    pc = "parsed" =>
      \A items \in LetItemSeqs :
        Input = LetItemsSource(items) =>
          /\ [i \in 1 .. Len(parser.errors) |-> parser.errors[i].message] = MessagesOf(items)
          /\ WellFormedOf(program.statements) = StatementsOf(items)

\* `let x 1; let = 1; let y = 1;` has been parsed: two errors, then the let.
BrokenLetsReportOneErrorWitness ==
    /\ pc = "parsed"
    /\ Input = Lex(<<"let", "x">>) \o Literal(1) \o Lex(<<";", "let", "=">>) \o Literal(1)
                 \o Lex(<<";", "let", "y", "=">>) \o Literal(1) \o Lex(<<";">>)
    /\ Len(parser.errors) = 2
    /\ parser.errors[1].message = "Expected '=' after variable name"
    /\ parser.errors[2].message = "Expected identifier after 'let'"
    /\ program.statements[Len(program.statements)].kind = "Let"

\* C17: when the tokens parse_program consumed contain an Illegal token, the
\* errors list holds at least one ParseError after parse_program has returned.
IllegalTokenReported ==
    pc = "parsed" /\ (\E i \in 1 .. Len(Input) : Input[i].type = "Illegal")
        => parser.errors # <<>>
\* The lexer has reached the end of its input: no character is left to read.
AtEnd(l) == l.position >= Len(l.input)

\* C18: once the lexer has reached the end of its input, every further call of
\* next_token returns Eof and leaves the lexer at the end, however many calls
\* were made before.
EofForever ==
    [][pc = "lex" /\ AtEnd(lexer) => lexed' = Append(lexed, Eof) /\ AtEnd(lexer')]_vars

\* The text `fn` has been lexed and next_token was called three more times.
EofForeverWitness ==
    /\ pc = "lex"
    /\ lexer.input = <<"f", "n">>
    /\ lexed = <<Token("Function"), Eof, Eof, Eof>>

\* The literals of the tokens before the first Eof, one after the other.
RECURSIVE Literals(_)
Literals(ts) ==
    IF ts = <<>> \/ Head(ts).type = "Eof" THEN ""
    ELSE to_literal(Head(ts)) \o Literals(Tail(ts))

\* The characters of text that are no whitespace, as a string.
RECURSIVE WithoutWhitespace(_)
WithoutWhitespace(text) ==
    IF text = <<>> THEN ""
    ELSE (IF is_whitespace(Head(text)) THEN "" ELSE Head(text))
             \o WithoutWhitespace(Tail(text))

\* C19: for every source text without a character the lexer has no token for,
\* the literals of the tokens next_token returned up to Eof, concatenated, are
\* the text with its whitespace removed.
LexRoundTrip ==
    pc = "lex" /\ lexed # <<>> /\ lexed[Len(lexed)].type = "Eof"
               /\ (\A i \in 1 .. Len(lexed) : lexed[i].type # "Illegal")
        => Literals(lexed) = WithoutWhitespace(lexer.input)

\* The object the infix operator o is to give on the operands left and right,
\* neither an Error: on two Integers the arithmetic or comparison result, on
\* two Booleans that of `==` and `!=`, otherwise the Error with the type names.
ArithmeticResult(o, left, right) ==
    CASE o = "+" -> Integer(left + right)
      [] o = "-" -> Integer(left - right)
      [] o = "*" -> Integer(left * right)
      [] o = "/" -> Integer(TruncDiv(left, right))
      [] o = "<" -> Boolean(left < right)
      [] o = ">" -> Boolean(left > right)
      [] o = "==" -> Boolean(left = right)
      [] o = "!=" -> Boolean(left # right)

InfixResult(o, left, right) ==
    IF left.type = "INTEGER" /\ right.type = "INTEGER"
    THEN ArithmeticResult(o, left.value, right.value)
    ELSE IF left.type = "BOOLEAN" /\ right.type = "BOOLEAN"
    THEN (IF o = "==" THEN Boolean(left.value = right.value)
          ELSE IF o = "!=" THEN Boolean(left.value # right.value)
          ELSE Error("unknown operator: BOOLEAN " \o o \o " BOOLEAN"))
    ELSE IF left.type # right.type
    THEN Error("type mismatch: " \o left.type \o " " \o o \o " " \o right.type)
    ELSE Error("unknown operator: " \o left.type \o " " \o o \o " " \o right.type)

\* The type and the content of the objects a and b are the same.
SameObject(a, b) ==
    /\ a.type = b.type
    /\ a.type \in {"INTEGER", "BOOLEAN"} => a.value = b.value
    /\ a.type = "ERROR" => a.message = b.message

\* C20: when both operands of an Infix node have been evaluated to objects that
\* are no Error, the evaluation returns the object the operator gives on them:
\* for two Integers and an operator of the language the arithmetic or
\* comparison result, for any other pair the ==/!= result or the Error with the
\* type names of the operands.
InfixReturnsResult ==
    [][Resuming("pre_eval_infix_expression", "right") /\ ~is_error(obj)
         /\ (Head(stack).left.type = "INTEGER" /\ obj.type = "INTEGER"
               => Head(stack).operator \in InfixOperators)
       => /\ pc' = "return"
          /\ SameObject(obj', InfixResult(Head(stack).operator, Head(stack).left, obj))]_vars

\* The condition value o makes an if-expression take its consequence: it is
\* neither Boolean(false) nor Null.
TakesConsequence(o) == ~(o.type = "BOOLEAN" /\ o.value = FALSE) /\ o.type # "NULL"

\* The function waiting for the condition of an if-expression.
WaitingIf == Head(stack)

\* C21: with the value of its condition (an Error is no value: it is the result
\* of the If), an If node evaluates its consequence when the value is neither
\* Boolean(false) nor Null, every Integer included; otherwise it evaluates its
\* alternative when there is one and yields Null when there is none.  The step
\* enters one branch at most.
IfChoosesBranchByTruthiness ==
    [][Resuming("eval_if_statement", "condition") /\ ~is_error(obj)
       => IF TakesConsequence(obj)
          THEN pc' = "eval" /\ node' = WaitingIf.consequence /\ env' = WaitingIf.env
          ELSE IF IsSome(WaitingIf.alternative)
          THEN pc' = "eval" /\ node' = WaitingIf.alternative /\ env' = WaitingIf.env
          ELSE pc' = "return" /\ obj'.type = "NULL"]_vars

\* `if (0) { 1 } else { 0 }` has evaluated its condition to Integer(0) and is
\* entering `{ 1 }`.
IfChoosesBranchByTruthinessWitness ==
    /\ program = Program(<<ExprStmt(If(IntegerLiteral(0), ConsequenceBlock, AlternativeBlock)),
                           OuterProbe>>)
    /\ pc = "eval" /\ node = ConsequenceBlock

\* C22: integer infix evaluation never crashes the host: whatever the operands,
\* a `/` by 0 included, the evaluation returns an object to its caller and the
\* host does not abort.
IntegerInfixNeverAborts == pc # "panicked"

\* The text is a run of ASCII digits, one at least.
IsDigitRun(text) == text # <<>> /\ \A i \in 1 .. Len(text) : is_ascii_digit(text[i])

\* The decimal value of a run of digits, from its last digit.
RECURSIVE DecimalValue(_)
DecimalValue(text) ==
    IF text = <<>> THEN 0
    ELSE to_digit(text[Len(text)]) + 10 * DecimalValue(SubSeq(text, 1, Len(text) - 1))

\* The Int a run of digits is to lex to: for the long runs the value that fits
\* an i64 or 0, for the short ones their decimal value.
IntOfDigitRun(text) ==
    IF text = [i \in 1 .. 20 |-> "9"] THEN 0
    ELSE IF text = [I64MaxDigits EXCEPT ![19] = "8"] THEN 0
    ELSE IF text = [i \in 1 .. 20 |-> IF i = 20 THEN "7" ELSE "0"] THEN 7
    ELSE DecimalValue(text)

\* C23: a source that is a run of ASCII digits lexes to exactly one Int token,
\* then Eof: its value is the decimal value of the digits when that fits an i64
\* and 0 when it does not; no Illegal token is returned for a literal too long.
DigitRunsLexToOneInt ==
    pc = "lex" /\ IsDigitRun(lexer.input) /\ lexed # <<>>
        => /\ lexed[1].type = "Int" /\ lexed[1].int = IntOfDigitRun(lexer.input)
           /\ \A i \in 2 .. Len(lexed) : lexed[i].type = "Eof"

\* 99999999999999999999 has been lexed to Int(0), and the end was reached.
DigitRunsLexToOneIntWitness ==
    /\ pc = "lex" /\ lexer.input = [i \in 1 .. 20 |-> "9"]
    /\ lexed = <<TokenInt(0), Eof>>

\* C24: in every state during or after an evaluation, no frame binds a name to
\* a ReturnValue or an Error: the values let statements and parameter binding
\* store are Integer, Boolean, Null or Function.
FramesHoldOnlyValues ==
    \A e \in 1 .. Len(heap) :
      \A name \in DOMAIN heap[e].store :
        heap[e].store[name].type \in {"INTEGER", "BOOLEAN", "NULL", "FUNCTION_OBJ"}

\* The stores s and t bind the same names to the same objects, but for name.
SameStoreBut(s, t, name) ==
    /\ DOMAIN s \ {name} = DOMAIN t \ {name}
    /\ \A n \in DOMAIN s \ {name} : s[n].type = t[n].type /\ s[n] = t[n]

\* The frame and the name the step from this state may bind: those of the let
\* statement that is binding; frame 0 when the step is of no let statement.
BindingFrame ==
    IF Resuming("eval_let_statement", "value") THEN Head(stack).env
    ELSE IF Evaluating("Let") THEN env
    ELSE 0

BindingName ==
    IF Resuming("eval_let_statement", "value") THEN Head(stack).name_str
    ELSE IF Evaluating("Let") /\ IsSome(node.name) /\ node.name.kind = "Identifier"
    THEN node.name.name
    ELSE ""

\* The binding of name a lookup from frame e is to return: that of the first
\* frame along the chain that has one.
RECURSIVE Innermost(_, _, _)
Innermost(h, e, name) ==
    IF name \in DOMAIN h[e].store THEN h[e].store[name]
    ELSE IF h[e].outer = 0 THEN None
    ELSE Innermost(h, h[e].outer, name)

\* C25: binding writes only the current frame.  A step changes no frame but the
\* one a let statement is binding in, and there no name but the one it binds; a
\* call adds a frame and changes none; the lookup of an identifier returns its
\* innermost binding along the chain; and after the call of a function that
\* binds x, by a let or as a parameter, the outer x has its value of before.
BindingWritesCurrentFrame ==
    [][/\ Len(heap') >= Len(heap)
       /\ \A e \in 1 .. Len(heap) :
            /\ heap'[e].outer = heap[e].outer
            /\ SameStoreBut(heap'[e].store, heap[e].store,
                            IF e = BindingFrame THEN BindingName ELSE "")
       /\ Evaluating("Identifier") /\ IsSome(Innermost(heap, env, node.name))
            => obj'.type = Innermost(heap, env, node.name).type
               /\ obj' = Innermost(heap, env, node.name)
       /\ pc' = "done" /\ Len(heap) = 2 /\ "x" \in DOMAIN heap[2].store \cup DOMAIN heap[1].store
            => \A a \in Ints, b \in Ints :
                 program \in {LetShadowProgram(a, b), ParamShadowProgram(a, b)}
                   => result'.type = "INTEGER" /\ result'.value = a]_vars

\* `let x = 1; let f = fn(y) { let x = 0; x }; f(0); x;` is done: the frame of
\* the call binds x to 0, the outer frame still binds x to 1, the result is 1.
BindingWritesCurrentFrameWitness ==
    /\ pc = "done" /\ program = LetShadowProgram(1, 0)
    /\ Len(heap) = 2 /\ heap[2].outer = 1
    /\ heap[2].store["x"].value = 0 /\ heap[1].store["x"].value = 1
    /\ result.value = 1

\* The step from this state is the application of a function to its arguments.
Applying ==
    Resuming("eval_call_expression", "function") \/ Resuming("eval_expressions", "expression")

\* C26: a Block is evaluated in the frame of the code that holds it.  No step
\* but the application of a function adds a frame; the statements an If or a
\* Block enters are evaluated in the frame the If or the Block is in; and a let
\* in a branch of an if binds in the enclosing frame, where the statement after
\* the if reads it.
BlocksShareTheFrame ==
    [][/\ Len(heap') # Len(heap) => Applying
       /\ (Evaluating("Block") \/ Evaluating("If")) /\ pc' = "eval" => env' = env
       /\ pc' = "done" /\ program \in IfLetPrograms
            => \A c \in BOOLEAN :
                 /\ program = IfLetProgram(c)
                      => /\ Len(heap') = 1 /\ "y" \in DOMAIN heap'[1].store
                         /\ result'.type = "INTEGER" /\ result'.value = (IF c THEN 1 ELSE 0)
                 /\ program = CallIfLetProgram(c)
                      => /\ Len(heap') = 2 /\ "y" \in DOMAIN heap'[2].store
                         /\ "y" \notin DOMAIN heap'[1].store
                         /\ result'.type = "ERROR"]_vars

\* `if (true) { let y = 1 } else { let y = 0 }; y;` is done: the only frame
\* binds y and the result is Integer(1).
BlocksShareTheFrameWitness ==
    /\ pc = "done" /\ program = IfLetProgram(TRUE)
    /\ Len(heap) = 1 /\ heap[1].store["y"].value = 1
    /\ result.type = "INTEGER" /\ result.value = 1

\* The Error obj is what the step returns to the function under the n topmost
\* of the stack, and the step adds no frame: no function body is entered.
ReturnsTheError(n) ==
    /\ pc' = "return" /\ obj'.type = "ERROR" /\ obj'.message = obj.message
    /\ stack' = SubSeq(stack, n + 1, Len(stack))
    /\ heap' = heap

\* The step returns Error("not a function: <TYPE>") for the callee and adds no
\* frame.
ReturnsNotAFunction(callee) ==
    /\ pc' = "return" /\ obj'.type = "ERROR"
    /\ obj'.message = "not a function: " \o callee.type
    /\ heap' = heap

\* C27: a Call evaluates its callee first, then its arguments from left to
\* right.  An Error of the callee or of an argument is the result of the Call at
\* once: no later argument is evaluated and no body is run.  With all arguments
\* evaluated, a callee that is no Function gives Error("not a function: <TYPE>").
CallEvaluatesCalleeThenArguments ==
    [][/\ Evaluating("Call") /\ IsSome(node.function)
            => pc' = "eval" /\ node' = node.function /\ env' = env
       /\ Resuming("eval_call_expression", "function")
            => IF is_error(obj) THEN ReturnsTheError(1)
               ELSE IF Head(stack).arguments # <<>>
               THEN pc' = "eval" /\ node' = Head(stack).arguments[1] /\ heap' = heap
               ELSE obj.type # "FUNCTION_OBJ" => ReturnsNotAFunction(obj)
       /\ Resuming("eval_expressions", "expression")
            => IF is_error(obj) THEN ReturnsTheError(2)
               ELSE IF Head(stack).i < Len(Head(stack).expressions)
               THEN /\ pc' = "eval" /\ heap' = heap
                    /\ node' = Head(stack).expressions[Head(stack).i + 1]
               ELSE stack[2].function.type # "FUNCTION_OBJ"
                      => ReturnsNotAFunction(stack[2].function)]_vars

\* `let f = fn(x) { x }; f(u, 1); let w = 1;` is done: the result is the Error
\* of the first argument and no frame was made for a call.
CallEvaluatesCalleeThenArgumentsWitness ==
    /\ pc = "done"
    /\ program =
         Program(<<Let(Identifier("f"),
                       Function(<<Identifier("x")>>, Block(<<ExprStmt(Identifier("x"))>>))),
                   ExprStmt(Call(Identifier("f"), <<ErrExpr, IntegerLiteral(1)>>)),
                   OuterProbe>>)
    /\ result.type = "ERROR" /\ result.message = "identifier not found: u"
    /\ Len(heap) = 1

\* The let statement waiting for its value.
WaitingLet == Head(stack)

\* C28: a let statement whose value is an Error leaves every frame as it was,
\* the name unbound or bound as before, and returns the Error; with any other
\* value it binds the name to it in the frame the statement is in and returns
\* the value.
LetBindsOnlyOnSuccess ==
    [][Resuming("eval_let_statement", "value")
       => /\ pc' = "return" /\ obj'.type = obj.type /\ obj' = obj
          /\ IF is_error(obj) THEN heap' = heap
             ELSE /\ WaitingLet.name_str \in DOMAIN heap'[WaitingLet.env].store
                  /\ heap'[WaitingLet.env].store[WaitingLet.name_str].type = obj.type
                  /\ heap'[WaitingLet.env].store[WaitingLet.name_str] = obj]_vars

\* `let x = 1; let x = u; let w = 1;` is done: the result is the Error of u, x
\* is still bound to 1 and w is not bound.
LetBindsOnlyOnSuccessWitness ==
    /\ pc = "done"
    /\ program = Program(<<Let(Identifier("x"), IntegerLiteral(1)),
                           Let(Identifier("x"), ErrExpr), OuterProbe>>)
    /\ result.type = "ERROR"
    /\ DOMAIN heap[1].store = {"x"} /\ heap[1].store["x"].value = 1

\* The messages of the errors the parser recorded, in order.
ErrorMessages == [i \in 1 .. Len(parser.errors) |-> parser.errors[i].message]

\* The expression of the first statement of the program is e, and parsing went
\* on: after the tail `; b;` the last statement is `b`.
FirstExpressionIs(e, tail) ==
    /\ program.statements # <<>>
    /\ program.statements[1] = ExprStmt(e)
    /\ tail = <<";", "b", ";">>
         => program.statements[Len(program.statements)] = ExprStmt(Identifier("b"))

\* C29: when no expression follows an infix operator the parser records the one
\* error "Expected expression after infix operator" and the expression is the
\* left operand alone; when none follows a prefix operator it records
\* "Expected expression after prefix operator" and builds the Prefix node with
\* no operand; the statements after it are parsed.
MissingOperandIsReported ==
    pc = "parsed" /\ Input \in MissingOperandSources =>
      \A tail \in OperandlessTails :
        /\ \A o \in InfixOperators :
             /\ Input = InfixWithoutRightSource(o, tail)
                  => /\ ErrorMessages = <<"Expected expression after infix operator">>
                     /\ FirstExpressionIs(Identifier("a"), tail)
             /\ Input = ProductThenInfixWithoutRightSource(o, tail)
                  => /\ ErrorMessages = <<"Expected expression after infix operator">>
                     /\ FirstExpressionIs(Infix(Identifier("a"), "*", Identifier("b")), tail)
             /\ \A q \in PrefixOperators :
                  Input = InfixThenPrefixWithoutRightSource(o, q, tail)
                    => /\ ErrorMessages = <<"Expected expression after prefix operator">>
                       /\ FirstExpressionIs(Infix(Identifier("a"), o, Prefix(q, None)), tail)
        /\ \A q \in PrefixOperators :
             Input = PrefixWithoutRightSource(q, tail)
               => /\ ErrorMessages = <<"Expected expression after prefix operator">>
                  /\ FirstExpressionIs(Prefix(q, None), tail)

\* `a + ; b;` has been parsed: one error, and the statements `a` and `b`.
MissingOperandIsReportedWitness ==
    /\ pc = "parsed" /\ Input = InfixWithoutRightSource("+", <<";", "b", ";">>)
    /\ Len(parser.errors) = 1
    /\ parser.errors[1].message = "Expected expression after infix operator"
    /\ program.statements = <<ExprStmt(Identifier("a")), ExprStmt(Identifier("b"))>>

\* The arguments of the application the step from this state makes.
AppliedArguments ==
    IF Resuming("eval_call_expression", "function") THEN <<>>
    ELSE Append(Head(stack).result, obj)

\* The lesser of two numbers.
Min(a, b) == IF a < b THEN a ELSE b

\* C30: the application of a function to k arguments binds, in the new frame,
\* its first min(k, n) parameters to the arguments at their positions and
\* nothing else, and enters the body whatever k and n are: no Error is made for
\* the arity.  A parameter without argument is unbound in the new frame, so
\* that its lookup gives the binding of the captured environment.
ParametersPairByPosition ==
    [][/\ Applying /\ Len(heap') > Len(heap)
            => /\ pc' = "eval" /\ node' = AppliedFunction.body /\ env' = Len(heap')
               /\ DOMAIN heap'[env'].store =
                    {AppliedFunction.parameters[i].name :
                       i \in 1 .. Min(Len(AppliedFunction.parameters), Len(AppliedArguments))}
               /\ \A i \in 1 .. Min(Len(AppliedFunction.parameters), Len(AppliedArguments)) :
                    /\ heap'[env'].store[AppliedFunction.parameters[i].name].type
                          = AppliedArguments[i].type
                    /\ heap'[env'].store[AppliedFunction.parameters[i].name]
                          = AppliedArguments[i]
       /\ Applying /\ ~is_error(obj) /\ AppliedFunction.type = "FUNCTION_OBJ"
            /\ (IF Resuming("eval_expressions", "expression")
                THEN Head(stack).i = Len(Head(stack).expressions)
                ELSE Head(stack).arguments = <<>>)
            => Len(heap') > Len(heap)
       /\ pc' = "done" /\ program \in ArityPrograms
            => \A n \in 0 .. 3, k \in 0 .. MaxArgs :
                 program = ArityProgram(n, k)
                   => /\ result'.type = "INTEGER"
                      /\ result'.value = (IF Min(n, k) >= 1 THEN 0 ELSE 1)]_vars

\* `let x = 1; let f = fn(x, y) { x }; f();` is done: the frame of the call
\* binds nothing and the result is the outer x, Integer(1).
ParametersPairByPositionWitness ==
    /\ pc = "done" /\ program = ArityProgram(2, 0)
    /\ Len(heap) = 2 /\ DOMAIN heap[2].store = {}
    /\ result.type = "INTEGER" /\ result.value = 1
====
